---- MODULE Spec2Model ----
(***************************************************************************)
(* Authorization core of the Woldecks board: the hosted Worker             *)
(* (src/unnamed/part_001, lines 1-567, with supabase/schema.sql) and the   *)
(* local Node server (src/unnamed/part_003).  A string is a sequence of    *)
(* atoms (short TLA+ strings); "." and ":" are atoms of their own, so that *)
(* splitting and signing work on the text as the code does.  Hashes are    *)
(* collision-free: a hash is the text "sha256(...)" of its input.          *)
(***************************************************************************)
EXTENDS Integers, Sequences, FiniteSets, TLC

VARIABLES variant, now, ticks, nextUuid, nextPost, posts, view_tokens,
          admin_sessions, sessions, issued, revoked, last, inflight

vars == <<variant, now, ticks, nextUuid, nextPost, posts, view_tokens,
          admin_sessions, sessions, issued, revoked, last, inflight>>

(* ------------------------------ bounds --------------------------------- *)
MaxPosts == 2
MaxMint == 2
MaxTicks == 1
\* Random draws of the view requests handled step by step.
MaxDraws == 4

(* ------------------------- program constants --------------------------- *)
\* Expiry windows of the hosted variant, in hours.
VIEW_TTL == 1
ADMIN_TTL == 24

ADMIN_PASSWORD == <<"adminpw">>
TOKEN_PEPPER == <<"pepper">>
SESSION_SECRET == "secret"

Dot == "."

(* ------------------------------ strings -------------------------------- *)
RECURSIVE Flat(_)
Flat(s) == IF s = <<>> THEN "" ELSE Head(s) \o Flat(Tail(s))

\* String.prototype.lastIndexOf("."), 1-based; 0 when there is none.
LastIndexOfDot(s) ==
    LET hits == {i \in 1..Len(s) : s[i] = Dot}
    IN IF hits = {} THEN 0 ELSE CHOOSE i \in hits : \A j \in hits : j <= i

Slice(s, a, b) == IF a > b THEN <<>> ELSE SubSeq(s, a, b)

(* --------------------------- hosted: crypto ---------------------------- *)
sha256Hex(input) == "sha256(" \o Flat(input) \o ")"

pbkdf2Hash(password, saltHex, iterations, keylen, digest) ==
    "pbkdf2(" \o Flat(password) \o "," \o saltHex \o "," \o ToString(iterations)
       \o "," \o ToString(keylen) \o "," \o digest \o ")"

\* safeEqualHex that compares the lengths and never the characters.
safeEqualHex_LengthOnly(a, b) == Len(a) = Len(b)

safeEqualHex(a, b) == a = b

makePasswordRecord(password, saltHex) ==
    [pw_salt_hex |-> saltHex,
     pw_iterations |-> 100000,
     pw_digest |-> "sha256",
     pw_keylen |-> 32,
     pw_hash_hex |-> pbkdf2Hash(password, saltHex, 100000, 32, "SHA-256")]

\* verifyPassword that derives with the digest name as stored.
verifyPassword_StoredDigest(password, record) ==
    safeEqualHex(pbkdf2Hash(password, record.pw_salt_hex, record.pw_iterations,
                            record.pw_keylen, record.pw_digest),
                 record.pw_hash_hex)

verifyPassword(password, record) ==
    LET digest == IF record.pw_digest = "sha256" THEN "SHA-256" ELSE record.pw_digest
    IN safeEqualHex(pbkdf2Hash(password, record.pw_salt_hex, record.pw_iterations,
                               record.pw_keylen, digest),
                    record.pw_hash_hex)

\* crypto.randomUUID() and 16 random bytes, drawn by the n-th request that
\* draws random values: fresh.
makeToken(n, pepper) ==
    LET token == <<"u" \o ToString(n)>>
        salt == <<"s" \o ToString(n)>>
    IN [token |-> token, salt |-> salt,
        hash |-> sha256Hex(token \o <<":">> \o salt \o <<":">> \o pepper)]

NullParts == [null |-> TRUE, token |-> <<>>, salt |-> <<>>]

splitToken(raw) ==
    IF raw = <<>> THEN NullParts
    ELSE LET idx == LastIndexOfDot(raw)
         IN IF idx = 0 THEN NullParts
            ELSE [null |-> FALSE,
                  token |-> Slice(raw, 1, idx - 1),
                  salt |-> Slice(raw, idx + 1, Len(raw))]

TokenText(t) == t.token \o <<Dot>> \o t.salt

(* ------------------------- requests, responses ------------------------- *)
\* A request: the two cookies, whether readJson yields a body (json), whether
\* the body text is JSON at all (parsed), and the body fields after the
\* handlers' typeof/trim normalisation ("" when missing).
Req(admin, sid, jsonOk, password, viewToken, title, content, author) ==
    [admin |-> admin, sid |-> sid, json |-> jsonOk, parsed |-> jsonOk,
     password |-> password, viewToken |-> viewToken, title |-> title,
     content |-> content, author |-> author]

\* Outcomes of the persistence calls a hosted handler makes, in call order:
\* the admin_sessions lookup, the view_tokens lookup, the posts read, the write.
AllOk == [admin |-> TRUE, tok |-> TRUE, read |-> TRUE, write |-> TRUE]

\* status 0: the handler returned without writing a response.
Resp(status, error) ==
    [status |-> status, error |-> error, detail |-> "", post |-> {}, list |-> {},
     viewToken |-> <<>>, cookieName |-> "", cookieValue |-> <<>>, id |-> ""]

\* What a handler does: its response and the stores it leaves behind.
Same(resp) ==
    [resp |-> resp, posts |-> posts, view_tokens |-> view_tokens,
     admin_sessions |-> admin_sessions, sessions |-> sessions,
     nextUuid |-> nextUuid, nextPost |-> nextPost]

PostView(post) ==
    [id |-> post.id, title |-> post.title, author |-> post.author,
     content |-> post.content]

\* A post as the list shows it.
ListView(post) == [id |-> post.id, title |-> post.title, author |-> post.author]

\* The id the store gives the i-th post (gen_random_uuid, crypto.randomUUID).
PostId(i) == "p" \o ToString(i)

Without(f, k) == [x \in DOMAIN f \ {k} |-> f[x]]
With(f, k, v) == [x \in DOMAIN f \cup {k} |-> IF x = k THEN v ELSE f[x]]

(* --------------------------- hosted: handlers --------------------------- *)
tokenHashOf(parts) ==
    sha256Hex(parts.token \o <<":">> \o parts.salt \o <<":">> \o TOKEN_PEPPER)

\* expires_at=gte.<now>: a row is still taken at its expiry instant.
Unexpired_Inclusive(row) == row.expires_at >= now

\* expires_at=gt.<now>
Unexpired(row) == row.expires_at > now

\* adminSessionFromCookie that filters on token_salt alone.
adminSessionFromCookie_SaltOnly(r, ok) ==
    LET tokenParts == splitToken(r.admin)
    IN IF tokenParts.null THEN {}
       ELSE IF ~ok.admin THEN {}
       ELSE {s \in admin_sessions : /\ s.token_salt = tokenParts.salt
                                    /\ s.expires_at > now}

\* A lookup that takes a failed call for a session found.
adminSessionFromCookie_FailOpen(r, ok) ==
    LET tokenParts == splitToken(r.admin)
    IN IF tokenParts.null THEN {}
       ELSE IF ~ok.admin THEN {[token_hash |-> tokenHashOf(tokenParts),
                                token_salt |-> tokenParts.salt,
                                expires_at |-> now + ADMIN_TTL]}
       ELSE {s \in admin_sessions : /\ s.token_hash = tokenHashOf(tokenParts)
                                    /\ s.token_salt = tokenParts.salt
                                    /\ s.expires_at > now}

adminSessionFromCookie(r, ok) ==
    LET tokenParts == splitToken(r.admin)
    IN IF tokenParts.null THEN {}
       ELSE IF ~ok.admin THEN {}
       ELSE {s \in admin_sessions : /\ s.token_hash = tokenHashOf(tokenParts)
                                    /\ s.token_salt = tokenParts.salt
                                    /\ Unexpired(s)}

isAdminHosted(r, ok) == adminSessionFromCookie(r, ok) # {}

\* The view_tokens lookup without its post_id filter.
viewTokenRows_AnyPost(id, viewToken) ==
    LET tokenParts == splitToken(viewToken)
    IN IF tokenParts.null THEN {}
       ELSE {t \in view_tokens : /\ t.token_hash = tokenHashOf(tokenParts)
                                 /\ t.token_salt = tokenParts.salt
                                 /\ t.expires_at > now}

\* A lookup that matches rows by post and salt and never by hash.
viewTokenRows_SaltOnly(id, viewToken) ==
    LET tokenParts == splitToken(viewToken)
    IN IF tokenParts.null THEN {}
       ELSE {t \in view_tokens : /\ t.post_id = id
                                 /\ t.token_salt = tokenParts.salt
                                 /\ t.expires_at > now}

viewTokenRows(id, viewToken) ==
    LET tokenParts == splitToken(viewToken)
    IN IF tokenParts.null THEN {}
       ELSE {t \in view_tokens : /\ t.post_id = id
                                 /\ t.token_hash = tokenHashOf(tokenParts)
                                 /\ t.token_salt = tokenParts.salt
                                 /\ Unexpired(t)}

\* The token branch of PUT and DELETE: authorized = rows.length > 0.
tokenAuthorized(id, r, ok) ==
    IF splitToken(r.viewToken).null THEN FALSE
    ELSE IF ~ok.tok THEN FALSE
    ELSE viewTokenRows(id, r.viewToken) # {}

\* Login that sets the cookie whatever the insert returned.
HostedLogin_CookieAnyway(r, ok) ==
    IF ~r.json THEN Same(Resp(400, "Invalid JSON"))
    ELSE IF r.password = <<>> THEN Same(Resp(400, "Missing field: password"))
    ELSE IF r.password # ADMIN_PASSWORD THEN Same(Resp(401, "Invalid password"))
    ELSE LET tokenData == makeToken(nextUuid + 1, TOKEN_PEPPER)
             row == [token_hash |-> tokenData.hash, token_salt |-> tokenData.salt,
                     expires_at |-> now + ADMIN_TTL]
         IN [Same([Resp(200, "") EXCEPT
                      !.cookieName = "woldecks.admin",
                      !.cookieValue = TokenText(tokenData)]) EXCEPT
                !.admin_sessions = IF ok.write THEN admin_sessions \cup {row}
                                   ELSE admin_sessions,
                !.nextUuid = nextUuid + 1]

HostedLogin(r, ok) ==
    IF ~r.json THEN Same(Resp(400, "Invalid JSON"))
    ELSE IF r.password = <<>> THEN Same(Resp(400, "Missing field: password"))
    ELSE IF r.password # ADMIN_PASSWORD THEN Same(Resp(401, "Invalid password"))
    ELSE LET tokenData == makeToken(nextUuid + 1, TOKEN_PEPPER)
             row == [token_hash |-> tokenData.hash, token_salt |-> tokenData.salt,
                     expires_at |-> now + ADMIN_TTL]
         IN IF ~ok.write
            THEN [Same(Resp(500, "Failed to create session")) EXCEPT
                     !.nextUuid = nextUuid + 1]
            ELSE [Same([Resp(200, "") EXCEPT
                           !.cookieName = "woldecks.admin",
                           !.cookieValue = TokenText(tokenData)]) EXCEPT
                     !.admin_sessions = admin_sessions \cup {row},
                     !.nextUuid = nextUuid + 1]

\* Logout that clears the cookie and leaves the admin_sessions row.
HostedLogout_CookieOnly(r, ok) ==
    Same([Resp(200, "") EXCEPT !.cookieName = "woldecks.admin",
                               !.cookieValue = <<"x">>])

HostedLogout(r, ok) ==
    LET tokenParts == splitToken(r.admin)
        resp == [Resp(200, "") EXCEPT !.cookieName = "woldecks.admin",
                                      !.cookieValue = <<"x">>]
    IN IF tokenParts.null \/ ~ok.write THEN Same(resp)
       ELSE [Same(resp) EXCEPT !.admin_sessions =
                {s \in admin_sessions : ~(/\ s.token_hash = tokenHashOf(tokenParts)
                                          /\ s.token_salt = tokenParts.salt)}]

HostedMe(r, ok) == Same([Resp(200, "") EXCEPT !.detail =
                            IF isAdminHosted(r, ok) THEN "admin" ELSE "anonymous"])

HostedCreate(r, ok) ==
    IF ~r.json THEN Same(Resp(400, "Invalid JSON"))
    ELSE IF r.title = "" \/ r.author = "" \/ r.content = "" \/ r.password = <<>>
    THEN Same(Resp(400, "Missing fields"))
    ELSE LET id == PostId(nextPost + 1)
             row == [id |-> id, title |-> r.title, author |-> r.author,
                     content |-> r.content]
                    @@ makePasswordRecord(r.password, "ps" \o ToString(nextPost + 1))
         IN IF ~ok.write
            THEN Same([Resp(500, "Failed to create post") EXCEPT !.detail = "backend"])
            ELSE [Same([Resp(201, "") EXCEPT !.id = id]) EXCEPT
                     !.posts = With(posts, id, row),
                     !.nextPost = nextPost + 1]

HostedLoadPost(id, ok) ==
    IF ~ok.read THEN Same([Resp(500, "Failed to load post") EXCEPT !.detail = "backend"])
    ELSE IF id \notin DOMAIN posts THEN Same(Resp(404, "Not found"))
    ELSE Same([Resp(200, "") EXCEPT !.post = {PostView(posts[id])}])

HostedGet(id, r, ok) ==
    IF ~isAdminHosted(r, ok) THEN Same(Resp(401, "Admin only"))
    ELSE HostedLoadPost(id, ok)

\* A view that keeps one token row per post.
HostedView_OnePerPost(id, r, ok) ==
    IF isAdminHosted(r, ok) THEN HostedLoadPost(id, ok)
    ELSE IF ~r.json THEN Same(Resp(400, "Invalid JSON"))
    ELSE IF r.password = <<>> THEN Same(Resp(401, "Password required"))
    ELSE IF ~ok.read
    THEN Same([Resp(500, "Failed to load post") EXCEPT !.detail = "backend"])
    ELSE IF id \notin DOMAIN posts THEN Same(Resp(404, "Not found"))
    ELSE IF ~verifyPassword(r.password, posts[id])
    THEN Same(Resp(401, "Invalid password"))
    ELSE LET tokenData == makeToken(nextUuid + 1, TOKEN_PEPPER)
             row == [post_id |-> id, token_hash |-> tokenData.hash,
                     token_salt |-> tokenData.salt, expires_at |-> now + VIEW_TTL]
         IN IF ~ok.write
            THEN [Same([Resp(500, "Failed to issue token") EXCEPT
                           !.detail = "backend"]) EXCEPT !.nextUuid = nextUuid + 1]
            ELSE [Same([Resp(200, "") EXCEPT
                           !.post = {PostView(posts[id])},
                           !.viewToken = TokenText(tokenData)]) EXCEPT
                     !.view_tokens = {t \in view_tokens : t.post_id # id} \cup {row},
                     !.nextUuid = nextUuid + 1]

HostedView(id, r, ok) ==
    IF isAdminHosted(r, ok) THEN HostedLoadPost(id, ok)
    ELSE IF ~r.json THEN Same(Resp(400, "Invalid JSON"))
    ELSE IF r.password = <<>> THEN Same(Resp(401, "Password required"))
    ELSE IF ~ok.read
    THEN Same([Resp(500, "Failed to load post") EXCEPT !.detail = "backend"])
    ELSE IF id \notin DOMAIN posts THEN Same(Resp(404, "Not found"))
    ELSE IF ~verifyPassword(r.password, posts[id])
    THEN Same(Resp(401, "Invalid password"))
    ELSE LET tokenData == makeToken(nextUuid + 1, TOKEN_PEPPER)
             row == [post_id |-> id, token_hash |-> tokenData.hash,
                     token_salt |-> tokenData.salt, expires_at |-> now + VIEW_TTL]
         IN IF ~ok.write
            THEN [Same([Resp(500, "Failed to issue token") EXCEPT
                           !.detail = "backend"]) EXCEPT !.nextUuid = nextUuid + 1]
            ELSE [Same([Resp(200, "") EXCEPT
                           !.post = {PostView(posts[id])},
                           !.viewToken = TokenText(tokenData)]) EXCEPT
                     !.view_tokens = view_tokens \cup {row},
                     !.nextUuid = nextUuid + 1]

\* The decision of PUT and DELETE for a caller that is not admin: a response
\* that ends the request, or status 0 when the request is authorized.
\* A decision that looks at the password before the token.
HostedDecide_PasswordFirst(id, r, ok) ==
    IF r.password # <<>> /\ ok.read /\ id \in DOMAIN posts
       /\ ~verifyPassword(r.password, posts[id])
    THEN Resp(401, "Invalid password")
    ELSE IF tokenAuthorized(id, r, ok) THEN Resp(0, "")
    ELSE IF r.password = <<>> THEN Resp(401, "Password required")
    ELSE IF ~ok.read THEN [Resp(500, "Failed to verify") EXCEPT !.detail = "backend"]
    ELSE IF id \notin DOMAIN posts THEN Resp(404, "Not found")
    ELSE Resp(0, "")

HostedDecide(id, r, ok) ==
    IF tokenAuthorized(id, r, ok) THEN Resp(0, "")
    ELSE IF r.password = <<>> THEN Resp(401, "Password required")
    ELSE IF ~ok.read THEN [Resp(500, "Failed to verify") EXCEPT !.detail = "backend"]
    ELSE IF id \notin DOMAIN posts THEN Resp(404, "Not found")
    ELSE IF ~verifyPassword(r.password, posts[id]) THEN Resp(401, "Invalid password")
    ELSE Resp(0, "")

\* PUT that decides authorization before it validates the body.
HostedPut_AuthFirst(id, r, ok) ==
    LET decision == IF isAdminHosted(r, ok) THEN Resp(0, "")
                    ELSE HostedDecide(id, r, ok)
    IN IF decision.status # 0 THEN Same(decision)
       ELSE IF ~r.json THEN Same(Resp(400, "Invalid JSON"))
       ELSE IF r.title = "" \/ r.content = "" THEN Same(Resp(400, "Missing fields"))
       ELSE [Same(Resp(200, "")) EXCEPT !.posts =
                [p \in DOMAIN posts |->
                    IF p = id THEN [posts[p] EXCEPT !.title = r.title,
                                                    !.content = r.content]
                    ELSE posts[p]]]

\* A PUT that writes a credential hash with the post.
HostedPut_Rehash(id, r, ok) ==
    IF ~r.json THEN Same(Resp(400, "Invalid JSON"))
    ELSE IF r.title = "" \/ r.content = "" THEN Same(Resp(400, "Missing fields"))
    ELSE LET decision == IF isAdminHosted(r, ok) THEN Resp(0, "")
                         ELSE HostedDecide(id, r, ok)
         IN IF decision.status # 0 THEN Same(decision)
            ELSE IF ~ok.write
            THEN Same([Resp(500, "Failed to update") EXCEPT !.detail = "backend"])
            ELSE [Same(Resp(200, "")) EXCEPT !.posts =
                     [p \in DOMAIN posts |->
                         IF p = id THEN [posts[p] EXCEPT !.title = r.title,
                                                         !.content = r.content,
                                                         !.pw_hash_hex = "rehashed"]
                         ELSE posts[p]]]

HostedPut(id, r, ok) ==
    IF ~r.json THEN Same(Resp(400, "Invalid JSON"))
    ELSE IF r.title = "" \/ r.content = "" THEN Same(Resp(400, "Missing fields"))
    ELSE LET decision == IF isAdminHosted(r, ok) THEN Resp(0, "")
                         ELSE HostedDecide(id, r, ok)
         IN IF decision.status # 0 THEN Same(decision)
            ELSE IF ~ok.write
            THEN Same([Resp(500, "Failed to update") EXCEPT !.detail = "backend"])
            ELSE [Same(Resp(200, "")) EXCEPT !.posts =
                     [p \in DOMAIN posts |->
                         IF p = id THEN [posts[p] EXCEPT !.title = r.title,
                                                         !.content = r.content]
                         ELSE posts[p]]]

HostedDelete(id, r, ok) ==
    IF ~r.json THEN Same(Resp(400, "Invalid JSON"))
    ELSE LET decision == IF isAdminHosted(r, ok) THEN Resp(0, "")
                         ELSE HostedDecide(id, r, ok)
         IN IF decision.status # 0 THEN Same(decision)
            ELSE IF ~ok.write
            THEN Same([Resp(500, "Failed to delete") EXCEPT !.detail = "backend"])
            ELSE [Same(Resp(200, "")) EXCEPT
                     !.posts = Without(posts, id),
                     \* view_tokens.post_id references posts(id) on delete cascade
                     !.view_tokens = {t \in view_tokens : t.post_id # id}]

(* ---------------------------- local: crypto ---------------------------- *)
hmacHex(value) == "hmac(" \o SESSION_SECRET \o "," \o Flat(value) \o ")"

sign(value) == value \o <<Dot, hmacHex(value)>>

\* null is the empty string: every caller tests the result for truthiness.
verifySigned(signed) ==
    LET idx == LastIndexOfDot(signed)
    IN IF idx = 0 THEN <<>>
       ELSE LET value == Slice(signed, 1, idx - 1)
                mac == Slice(signed, idx + 1, Len(signed))
            IN IF mac = <<hmacHex(value)>> THEN value ELSE <<>>

getSessionId(r) == IF r.sid = <<>> THEN <<>> ELSE verifySigned(r.sid)

getAdminSession(r) ==
    IF r.admin = <<>> THEN <<>>
    ELSE LET sid == verifySigned(r.admin)
         IN IF sid = <<>> THEN <<>>
            ELSE IF sid \in DOMAIN sessions THEN sid ELSE <<>>

\* isAdmin that reads the woldecks.sid cookie.
isAdminLocal_SidCookie(r) ==
    getSessionId(r) # <<>> /\ getSessionId(r) \in DOMAIN sessions

isAdminLocal(r) == getAdminSession(r) # <<>>

pbkdf2HashLocal(password, saltHex) ==
    [iterations |-> 120000, digest |-> "sha256", keylen |-> 32,
     hashHex |-> pbkdf2Hash(password, saltHex, 120000, 32, "sha256")]

makePasswordRecordLocal(password, saltHex) ==
    LET derived == pbkdf2HashLocal(password, saltHex)
    IN [saltHex |-> saltHex, iterations |-> derived.iterations,
        digest |-> derived.digest, keylen |-> derived.keylen,
        hashHex |-> derived.hashHex]

verifyPasswordLocal(password, record) ==
    pbkdf2Hash(password, record.saltHex, record.iterations, record.keylen,
               record.digest) = record.hashHex

NewSession == [verified |-> {}, tokens |-> <<>>]

\* crypto.randomUUID(): the k-th draw ("a", "b") of the n-th request that
\* draws random values.
Uuid(n, k) == <<"u" \o ToString(n) \o k>>

\* unlock without tokens.set: the session is marked verified, no token kept.
unlock_NoToken(id, r) ==
    LET sid == getSessionId(r)
        has == sid # <<>> /\ sid \in DOMAIN sessions
        used == IF has THEN sid ELSE <<"u" \o ToString(nextUuid + 1) \o "a">>
        session == IF has THEN sessions[sid] ELSE [verified |-> {}, tokens |-> <<>>]
    IN [sessions |-> [x \in DOMAIN sessions \cup {used} |->
                        IF x = used
                        THEN [verified |-> session.verified \cup {id},
                              tokens |-> session.tokens]
                        ELSE sessions[x]],
        nextUuid |-> nextUuid + 1,
        viewToken |-> <<"u" \o ToString(nextUuid + 1) \o "b">>,
        cookieName |-> IF has THEN "" ELSE "woldecks.sid",
        cookieValue |-> IF has THEN <<>> ELSE sign(used)]

\* getOrCreateSession, then verified.add(id) and tokens.set(id, fresh uuid):
\* the sessions map afterwards, the uuids drawn and the cookie set (if any).
unlock(id, r) ==
    LET sid == getSessionId(r)
        has == sid # <<>> /\ sid \in DOMAIN sessions
        used == IF has THEN sid ELSE Uuid(nextUuid + 1, "a")
        session == IF has THEN sessions[sid] ELSE NewSession
        viewToken == Uuid(nextUuid + 1, "b")
    IN [sessions |-> With(sessions, used,
                          [verified |-> session.verified \cup {id},
                           tokens |-> With(session.tokens, id, viewToken)]),
        nextUuid |-> nextUuid + 1,
        viewToken |-> viewToken,
        cookieName |-> IF has THEN "" ELSE "woldecks.sid",
        cookieValue |-> IF has THEN <<>> ELSE sign(used)]

(* --------------------------- local: handlers --------------------------- *)
\* readJson returned null: after a parse error it has answered 400; for the
\* body text "null" JSON.parse itself returns null, nothing is answered, and
\* the handler returns on body === null.
LocalNoJson(r) ==
    IF r.parsed THEN Same(Resp(0, "")) ELSE Same(Resp(400, "Invalid JSON"))

LocalMe(r) == Same([Resp(200, "") EXCEPT !.detail =
                       IF isAdminLocal(r) THEN "admin" ELSE "anonymous"])

LocalLogin(r) ==
    IF ~r.json THEN LocalNoJson(r)
    ELSE IF r.password = <<>> THEN Same(Resp(400, "Missing field: password"))
    ELSE IF r.password # ADMIN_PASSWORD THEN Same(Resp(401, "Invalid password"))
    ELSE LET sid == Uuid(nextUuid + 1, "a")
         IN [Same([Resp(200, "") EXCEPT !.cookieName = "woldecks.admin",
                                        !.cookieValue = sign(sid)]) EXCEPT
                !.sessions = With(sessions, sid, NewSession),
                !.nextUuid = nextUuid + 1]

LocalLogout(r) ==
    LET sid == getAdminSession(r)
        resp == [Resp(200, "") EXCEPT !.cookieName = "woldecks.admin",
                                      !.cookieValue = <<"x">>]
    IN IF sid = <<>> THEN Same(resp)
       ELSE [Same(resp) EXCEPT !.sessions = Without(sessions, sid)]

LocalCreate(r) ==
    IF ~r.json THEN LocalNoJson(r)
    ELSE IF r.title = "" \/ r.author = "" \/ r.content = "" \/ r.password = <<>>
    THEN Same(Resp(400, "Missing fields"))
    ELSE LET id == PostId(nextPost + 1)
             post == [id |-> id, title |-> r.title, author |-> r.author,
                      content |-> r.content,
                      password |-> makePasswordRecordLocal(
                                      r.password, "ps" \o ToString(nextPost + 1))]
         IN [Same([Resp(201, "") EXCEPT !.id = id]) EXCEPT
                !.posts = With(posts, id, post),
                !.nextPost = nextPost + 1]

LocalGet(id, r) ==
    IF ~isAdminLocal(r) THEN Same(Resp(401, "Admin only"))
    ELSE IF id \notin DOMAIN posts THEN Same(Resp(404, "Not found"))
    ELSE Same([Resp(200, "") EXCEPT !.post = {PostView(posts[id])}])

\* route() called again with req.url = /api/posts/<id> and req.method still
\* POST: no branch of route matches, it returns null, and the promise the
\* server got from the outer call has already made it return.
LocalRerouted(id, r) == Same(Resp(0, ""))

\* A view that returns the post to a session that has unlocked it.
LocalView_SessionFirst(id, r) ==
    IF isAdminLocal(r) THEN LocalRerouted(id, r)
    ELSE IF ~r.json THEN LocalNoJson(r)
    ELSE IF /\ id \in DOMAIN posts
            /\ getSessionId(r) # <<>>
            /\ getSessionId(r) \in DOMAIN sessions
            /\ id \in sessions[getSessionId(r)].verified
    THEN Same([Resp(200, "") EXCEPT !.post = {PostView(posts[id])}])
    ELSE IF r.password = <<>> THEN Same(Resp(401, "Password required"))
    ELSE IF id \notin DOMAIN posts THEN Same(Resp(404, "Not found"))
    ELSE IF ~verifyPasswordLocal(r.password, posts[id].password)
    THEN Same(Resp(401, "Invalid password"))
    ELSE LET u == unlock(id, r)
         IN [Same([Resp(200, "") EXCEPT !.post = {PostView(posts[id])},
                                        !.viewToken = u.viewToken,
                                        !.cookieName = u.cookieName,
                                        !.cookieValue = u.cookieValue]) EXCEPT
                !.sessions = u.sessions,
                !.nextUuid = u.nextUuid]

LocalView(id, r) ==
    IF isAdminLocal(r) THEN LocalRerouted(id, r)
    ELSE IF ~r.json THEN LocalNoJson(r)
    ELSE IF r.password = <<>> THEN Same(Resp(401, "Password required"))
    ELSE IF id \notin DOMAIN posts THEN Same(Resp(404, "Not found"))
    ELSE IF ~verifyPasswordLocal(r.password, posts[id].password)
    THEN Same(Resp(401, "Invalid password"))
    ELSE LET u == unlock(id, r)
         IN [Same([Resp(200, "") EXCEPT !.post = {PostView(posts[id])},
                                        !.viewToken = u.viewToken,
                                        !.cookieName = u.cookieName,
                                        !.cookieValue = u.cookieValue]) EXCEPT
                !.sessions = u.sessions,
                !.nextUuid = u.nextUuid]

\* A token check that takes the token from whichever session holds it.
sessionAuthorized_AnySession(id, r) ==
    \E s \in DOMAIN sessions :
       /\ id \in DOMAIN sessions[s].tokens
       /\ sessions[s].tokens[id] = r.viewToken

\* tokenOk alone: the session's verified set is not looked at.
sessionAuthorized_TokenOnly(id, r) ==
    LET sid == getSessionId(r)
        has == sid # <<>> /\ sid \in DOMAIN sessions
    IN IF has /\ id \in DOMAIN sessions[sid].tokens
       THEN sessions[sid].tokens[id] = r.viewToken
       ELSE FALSE

\* verified || tokenOk of PUT and DELETE.
sessionAuthorized(id, r) ==
    LET sid == getSessionId(r)
        has == sid # <<>> /\ sid \in DOMAIN sessions
        verified == IF has THEN id \in sessions[sid].verified ELSE FALSE
        tokenOk == IF has /\ id \in DOMAIN sessions[sid].tokens
                   THEN sessions[sid].tokens[id] = r.viewToken
                   ELSE FALSE
    IN verified \/ tokenOk

\* The decision with getOrCreateSession called before the password is
\* verified: a wrong password leaves a new session behind.
LocalDecide_SessionFirst(id, r) ==
    IF sessionAuthorized(id, r) THEN Same(Resp(0, ""))
    ELSE IF r.password = <<>> THEN Same(Resp(401, "Password required"))
    ELSE LET u == unlock(id, r)
         IN IF ~verifyPasswordLocal(r.password, posts[id].password)
            THEN [Same([Resp(401, "Invalid password") EXCEPT
                           !.cookieName = u.cookieName,
                           !.cookieValue = u.cookieValue]) EXCEPT
                     !.sessions = [x \in DOMAIN u.sessions |->
                                     IF x \in DOMAIN sessions THEN sessions[x]
                                     ELSE NewSession],
                     !.nextUuid = u.nextUuid]
            ELSE [Same([Resp(0, "") EXCEPT !.cookieName = u.cookieName,
                                           !.cookieValue = u.cookieValue]) EXCEPT
                     !.sessions = u.sessions,
                     !.nextUuid = u.nextUuid]

\* The decision of PUT and DELETE on an existing post for a caller that is
\* not admin: the response that ends the request (status 0: authorized), the
\* sessions map and the cookie it leaves.
LocalDecide(id, r) ==
    IF sessionAuthorized(id, r) THEN Same(Resp(0, ""))
    ELSE IF r.password = <<>> THEN Same(Resp(401, "Password required"))
    ELSE IF ~verifyPasswordLocal(r.password, posts[id].password)
    THEN Same(Resp(401, "Invalid password"))
    ELSE LET u == unlock(id, r)
         IN [Same([Resp(0, "") EXCEPT !.cookieName = u.cookieName,
                                      !.cookieValue = u.cookieValue]) EXCEPT
                !.sessions = u.sessions,
                !.nextUuid = u.nextUuid]

\* A PUT that runs the decision for every caller, admin or not.
LocalPut_DecideAll(id, r) ==
    IF ~r.json THEN LocalNoJson(r)
    ELSE IF r.title = "" \/ r.content = "" THEN Same(Resp(400, "Missing fields"))
    ELSE IF id \notin DOMAIN posts THEN Same(Resp(404, "Not found"))
    ELSE LET d == LocalDecide(id, r)
         IN IF d.resp.status # 0 /\ ~isAdminLocal(r) THEN d
            ELSE [d EXCEPT !.resp.status = 200,
                           !.posts = [posts EXCEPT ![id].title = r.title,
                                                   ![id].content = r.content]]

LocalPut(id, r) ==
    IF ~r.json THEN LocalNoJson(r)
    ELSE IF r.title = "" \/ r.content = "" THEN Same(Resp(400, "Missing fields"))
    ELSE IF id \notin DOMAIN posts THEN Same(Resp(404, "Not found"))
    ELSE LET d == IF isAdminLocal(r) THEN Same(Resp(0, "")) ELSE LocalDecide(id, r)
         IN IF d.resp.status # 0 THEN d
            ELSE [d EXCEPT !.resp.status = 200,
                           !.posts = [posts EXCEPT ![id].title = r.title,
                                                   ![id].content = r.content]]

LocalDelete(id, r) ==
    IF ~r.json THEN LocalNoJson(r)
    ELSE IF id \notin DOMAIN posts THEN Same(Resp(404, "Not found"))
    ELSE LET d == IF isAdminLocal(r) THEN Same(Resp(0, "")) ELSE LocalDecide(id, r)
         IN IF d.resp.status # 0 THEN d
            ELSE [d EXCEPT !.resp.status = 200, !.posts = Without(posts, id)]

(* ----------------------------- dispatch -------------------------------- *)
Hosted == variant = "hosted"

Me(r, ok) == IF Hosted THEN HostedMe(r, ok) ELSE LocalMe(r)
Login(r, ok) == IF Hosted THEN HostedLogin(r, ok) ELSE LocalLogin(r)
Logout(r, ok) == IF Hosted THEN HostedLogout(r, ok) ELSE LocalLogout(r)
\* GET /api/posts: hosted, a failed read of the posts is answered 500; the
\* local readData cannot fail.
List(r, ok) ==
    IF Hosted /\ ~ok.read
    THEN Same([Resp(500, "Failed to load posts") EXCEPT !.detail = "backend"])
    ELSE Same([Resp(200, "") EXCEPT !.list = {ListView(posts[id]) : id \in DOMAIN posts}])
Create(r, ok) == IF Hosted THEN HostedCreate(r, ok) ELSE LocalCreate(r)
Get(id, r, ok) == IF Hosted THEN HostedGet(id, r, ok) ELSE LocalGet(id, r)
View(id, r, ok) == IF Hosted THEN HostedView(id, r, ok) ELSE LocalView(id, r)
Put(id, r, ok) == IF Hosted THEN HostedPut(id, r, ok) ELSE LocalPut(id, r)
Delete(id, r, ok) == IF Hosted THEN HostedDelete(id, r, ok) ELSE LocalDelete(id, r)

isAdmin(r, ok) == IF Hosted THEN isAdminHosted(r, ok) ELSE isAdminLocal(r)

\* Step 2 of the decision: the stored view credential the request presents.
credentialOk(id, r, ok) ==
    IF Hosted THEN tokenAuthorized(id, r, ok) ELSE sessionAuthorized(id, r)

passwordOk(id, r) ==
    /\ id \in DOMAIN posts
    /\ r.password # <<>>
    /\ IF Hosted THEN verifyPassword(r.password, posts[id])
       ELSE verifyPasswordLocal(r.password, posts[id].password)

\* The branch that let a request through, for the log.
Via(id, r, ok) ==
    IF isAdmin(r, ok) THEN "admin"
    ELSE IF credentialOk(id, r, ok) THEN "credential"
    ELSE IF passwordOk(id, r) THEN "password"
    ELSE "none"

(* ------------------------------ inputs --------------------------------- *)
\* The ids requests name: every id the store has handed out and, while it
\* can still create posts, the one it has not.
PostIds == {PostId(i) : i \in 1..(IF nextPost < MaxPosts THEN nextPost + 1 ELSE MaxPosts)}

\* What a client can put in a cookie or in viewToken: nothing, the "x" the
\* logout response sets, or any text a response has handed out.
Raws == {<<>>, <<"x">>} \cup {c.raw : c \in issued}
CookieRaws == {<<>>} \cup {c.raw : c \in {d \in issued : d.kind # "view"}}
SidRaws == IF Hosted THEN {<<>>} ELSE CookieRaws
TokenRaws == {<<>>, <<"x">>} \cup {c.raw : c \in {d \in issued : d.kind = "view"}}

Passwords == {<<>>, <<"pa">>, <<"pb">>}
\* Passwords are interchangeable names: the first post takes "pa", a later
\* one the same password or another.
CreatePasswords == IF nextPost = 0 THEN {<<>>, <<"pa">>} ELSE Passwords
LoginPasswords == {<<>>, <<"pa">>, ADMIN_PASSWORD}

\* A body that is not JSON, and the body "null".
NoBody(admin, sid) == Req(admin, sid, FALSE, <<>>, <<>>, "", "", "")
NullBody(admin, sid) == [NoBody(admin, sid) EXCEPT !.parsed = TRUE]
Body(admin, sid, password, viewToken, title, content) ==
    Req(admin, sid, TRUE, password, viewToken, title, content, "au")

\* Bodies of PUT with a field missing.
BadTexts == {<<"", "c1">>, <<"t1", "">>}

\* The credentials of a request to a post, as <<admin cookie, session cookie,
\* viewToken, password>>: every text as the admin cookie, alone, with a bad
\* token or with a password; or no admin cookie and every session cookie,
\* view token and password.
Credentials ==
    {<<admin, <<>>, x[1], x[2]>> :
        admin \in Raws \ {<<>>},
        x \in {<<<<>>, <<>>>>, <<<<"x">>, <<>>>>, <<<<>>, <<"pa">>>>, <<<<>>, <<"pb">>>>}}
    \cup {<<<<>>, sid, viewToken, password>> :
            sid \in SidRaws, viewToken \in TokenRaws, password \in Passwords}

\* The same for the view exchange, which reads no viewToken.
ViewCredentials ==
    {<<admin, <<>>, <<>>, password>> :
        admin \in Raws \ {<<>>}, password \in {<<>>, <<"pb">>}}
    \cup {<<<<>>, sid, <<>>, password>> : sid \in SidRaws, password \in Passwords}

(* ------------------------------- state --------------------------------- *)
\* The view requests a server is handling at once, each between two awaits:
\* read (arrived, body and post not read yet), insert (hosted: password
\* verified against the post row read, token not inserted yet), done
\* (response written).
Slots == {1, 2}
Idle == [pc |-> "idle"]

Init ==
    /\ variant \in {"hosted", "local"}
    /\ now = 0
    /\ ticks = 0
    /\ nextUuid = 0
    /\ nextPost = 0
    /\ posts = <<>>
    /\ view_tokens = {}
    /\ admin_sessions = {}
    /\ sessions = <<>>
    /\ issued = {}
    /\ revoked = {}
    /\ last = [op |-> "init", id |-> "", status |-> 0, via |-> ""]
    /\ inflight = [k \in Slots |-> Idle]

Cred(kind, raw, id, cookie) ==
    [kind |-> kind, raw |-> raw, post |-> id, at |-> now, cookie |-> cookie]

\* The credentials a response hands to the client.
Handed(op, id, r, resp) ==
    LET held == IF resp.cookieName = "woldecks.sid" THEN resp.cookieValue ELSE r.sid
    IN (IF op = "login" /\ resp.cookieName = "woldecks.admin"
        THEN {Cred("admin", resp.cookieValue, "", <<>>)} ELSE {})
       \cup (IF resp.cookieName = "woldecks.sid"
             THEN {Cred("sid", resp.cookieValue, "", <<>>)} ELSE {})
       \cup (IF resp.viewToken # <<>>
             THEN {Cred("view", resp.viewToken, id, held)} ELSE {})

\* The admin cookie a logout was given, when the server took it for admin.
Revoked(op, r) ==
    IF op = "logout" /\ isAdmin(r, AllOk) THEN {r.admin} ELSE {}

\* last: the latest login, view, PUT or DELETE that was let through (status
\* 200), and the branch that decided it.
LoggedOps == {"login", "view", "put", "delete"}

Apply(op, id, r, o, via) ==
    /\ o.nextUuid <= MaxMint
    /\ o.nextPost <= MaxPosts
    /\ posts' = o.posts
    /\ view_tokens' = o.view_tokens
    /\ admin_sessions' = o.admin_sessions
    /\ sessions' = o.sessions
    /\ nextUuid' = o.nextUuid
    /\ nextPost' = o.nextPost
    /\ issued' = issued \cup Handed(op, id, r, o.resp)
    /\ revoked' = revoked \cup Revoked(op, r)
    /\ last' = IF op \in LoggedOps /\ o.resp.status = 200
               THEN [op |-> op, id |-> id, status |-> o.resp.status, via |-> via]
               ELSE last
    /\ UNCHANGED <<variant, now, ticks, inflight>>

DoMe ==
    \E admin \in Raws :
        LET r == NoBody(admin, <<>>)
        IN Apply("me", "", r, Me(r, AllOk), "")

DoLogin ==
    \/ \E password \in LoginPasswords :
          LET r == Body(<<>>, <<>>, password, <<>>, "", "")
          IN Apply("login", "", r, Login(r, AllOk), "")
    \/ \E r \in {NoBody(<<>>, <<>>), NullBody(<<>>, <<>>)} :
          Apply("login", "", r, Login(r, AllOk), "")

DoLogout ==
    \E admin \in Raws :
        LET r == NoBody(admin, <<>>)
        IN Apply("logout", "", r, Logout(r, AllOk), "")

DoCreate ==
    \/ \E title \in {"", "t0"}, author \in {"", "au"}, content \in {"", "c0"},
          password \in CreatePasswords :
          LET r == Req(<<>>, <<>>, TRUE, password, <<>>, title, content, author)
          IN Apply("create", "", r, Create(r, AllOk), "")
    \/ \E r \in {NoBody(<<>>, <<>>), NullBody(<<>>, <<>>)} :
          Apply("create", "", r, Create(r, AllOk), "")

DoList ==
    \E admin \in Raws :
        LET r == NoBody(admin, <<>>)
        IN Apply("list", "", r, List(r, AllOk), "")

DoGet ==
    \E id \in PostIds, admin \in Raws :
        LET r == NoBody(admin, <<>>)
        IN Apply("get", id, r, Get(id, r, AllOk), "")

DoView ==
    \E id \in PostIds :
        \/ \E c \in ViewCredentials :
              LET r == Body(c[1], c[2], c[4], c[3], "", "")
              IN Apply("view", id, r, View(id, r, AllOk),
                       IF isAdmin(r, AllOk) THEN "admin" ELSE "password")
        \/ \E admin \in CookieRaws :
              \E r \in {NoBody(admin, <<>>), NullBody(admin, <<>>)} :
                 Apply("view", id, r, View(id, r, AllOk),
                       IF isAdmin(r, AllOk) THEN "admin" ELSE "password")

DoPut ==
    \E id \in PostIds :
        \/ \E c \in Credentials :
              LET r == Body(c[1], c[2], c[4], c[3], "t1", "c1")
              IN Apply("put", id, r, Put(id, r, AllOk), Via(id, r, AllOk))
        \/ \E admin \in CookieRaws, text \in BadTexts :
              LET r == Body(admin, <<>>, <<>>, <<>>, text[1], text[2])
              IN Apply("put", id, r, Put(id, r, AllOk), Via(id, r, AllOk))
        \/ \E admin \in CookieRaws :
              \E r \in {NoBody(admin, <<>>), NullBody(admin, <<>>)} :
                 Apply("put", id, r, Put(id, r, AllOk), Via(id, r, AllOk))

DoDelete ==
    \E id \in PostIds :
        \/ \E c \in Credentials :
              LET r == Body(c[1], c[2], c[4], c[3], "", "")
              IN Apply("delete", id, r, Delete(id, r, AllOk), Via(id, r, AllOk))
        \/ \E admin \in CookieRaws :
              \E r \in {NoBody(admin, <<>>), NullBody(admin, <<>>)} :
                 Apply("delete", id, r, Delete(id, r, AllOk), Via(id, r, AllOk))

\* Time passes (hosted: the only reader of the clock is expires_at > now).
Tick ==
    /\ Hosted
    /\ ticks < MaxTicks
    /\ \E d \in {VIEW_TTL, ADMIN_TTL} : now' = now + d
    /\ ticks' = ticks + 1
    /\ UNCHANGED <<variant, nextUuid, nextPost, posts, view_tokens,
                   admin_sessions, sessions, issued, revoked, last, inflight>>

Next ==
    \/ DoMe
    \/ DoLogin
    \/ DoLogout
    \/ DoList
    \/ DoCreate
    \/ DoGet
    \/ DoView
    \/ DoPut
    \/ DoDelete
    \/ Tick

Spec == Init /\ [][Next]_vars

(* ---------------- view requests handled concurrently ------------------ *)
\* POST /api/posts/:id/view of a caller without admin cookie, handled step by
\* step: a handler runs from one await to the next without interruption, and
\* other requests run in between.

\* The request has arrived; isAdmin has found no admin cookie. The requests
\* taken are those that carry the password of a stored post, with or without
\* a session cookie of an earlier response.
ViewArrive(k) ==
    /\ inflight[k].pc = "idle"
    /\ \E id \in DOMAIN posts, sid \in SidRaws :
       \E password \in {p \in Passwords : passwordOk(id, [password |-> p])} :
          inflight' =
             [j \in Slots |->
                IF j = k
                THEN [pc |-> "read", id |-> id, r |-> Body(<<>>, sid, password, <<>>, "", ""),
                      post |-> {}, resp |-> Resp(0, ""),
                      overlap |-> \E i \in Slots \ {k} :
                                     inflight[i].pc \in {"read", "insert"}]
                ELSE IF inflight[j].pc \in {"read", "insert"}
                THEN [inflight[j] EXCEPT !.overlap = TRUE]
                ELSE inflight[j]]
    /\ UNCHANGED <<variant, now, ticks, nextUuid, nextPost, posts, view_tokens,
                   admin_sessions, sessions, issued, revoked, last>>

\* An insert that keeps one row per post: a lost update.
InsertViewToken_OnePerPost(rows, row) ==
    {t \in rows : t.post_id # row.post_id} \cup {row}

\* The view_tokens insert (POST view_tokens, return=minimal).
InsertViewToken(rows, row) == rows \cup {row}

\* Hosted: the body is read, the post row is read and the password verified
\* against the row read.
ViewRead(k) ==
    /\ Hosted
    /\ inflight[k].pc = "read"
    /\ LET q == inflight[k]
           early == IF ~q.r.json THEN Resp(400, "Invalid JSON")
                    ELSE IF q.r.password = <<>> THEN Resp(401, "Password required")
                    ELSE IF q.id \notin DOMAIN posts THEN Resp(404, "Not found")
                    ELSE IF ~verifyPassword(q.r.password, posts[q.id])
                    THEN Resp(401, "Invalid password")
                    ELSE Resp(0, "")
       IN inflight' = [inflight EXCEPT ![k] =
                          IF early.status # 0
                          THEN [q EXCEPT !.pc = "done", !.resp = early]
                          ELSE [q EXCEPT !.pc = "insert", !.post = {posts[q.id]}]]
    /\ UNCHANGED <<variant, now, ticks, nextUuid, nextPost, posts, view_tokens,
                   admin_sessions, sessions, issued, revoked, last>>

\* Hosted: the token is made and its row inserted (refused by the foreign key
\* when the post is gone), and the response is written from the row read.
ViewInsert(k) ==
    /\ Hosted
    /\ inflight[k].pc = "insert"
    /\ nextUuid < MaxDraws
    /\ LET q == inflight[k]
           post == CHOOSE p \in q.post : TRUE
           tokenData == makeToken(nextUuid + 1, TOKEN_PEPPER)
           row == [post_id |-> q.id, token_hash |-> tokenData.hash,
                   token_salt |-> tokenData.salt, expires_at |-> now + VIEW_TTL]
           resp == IF q.id \in DOMAIN posts
                   THEN [Resp(200, "") EXCEPT !.post = {PostView(post)},
                                              !.viewToken = TokenText(tokenData)]
                   ELSE [Resp(500, "Failed to issue token") EXCEPT !.detail = "backend"]
       IN /\ view_tokens' = IF q.id \in DOMAIN posts
                            THEN InsertViewToken(view_tokens, row)
                            ELSE view_tokens
          /\ nextUuid' = nextUuid + 1
          /\ inflight' = [inflight EXCEPT ![k] = [q EXCEPT !.pc = "done", !.resp = resp]]
          /\ issued' = issued \cup Handed("view", q.id, q.r, resp)
    /\ UNCHANGED <<variant, now, ticks, nextPost, posts, admin_sessions, sessions,
                   revoked, last>>

\* Local: after await readJson the rest of the handler runs without another
\* await: readData, verifyPassword, getOrCreateSession, verified.add,
\* tokens.set and the response.
ViewFinish(k) ==
    /\ ~Hosted
    /\ inflight[k].pc = "read"
    /\ LET q == inflight[k]
           o == LocalView(q.id, q.r)
       IN /\ o.nextUuid <= MaxDraws
          /\ sessions' = o.sessions
          /\ nextUuid' = o.nextUuid
          /\ inflight' = [inflight EXCEPT ![k] = [q EXCEPT !.pc = "done", !.resp = o.resp]]
          /\ issued' = issued \cup Handed("view", q.id, q.r, o.resp)
    /\ UNCHANGED <<variant, now, ticks, nextPost, posts, view_tokens,
                   admin_sessions, revoked, last>>

\* The client has the response.
ViewRespond(k) ==
    /\ inflight[k].pc = "done"
    /\ inflight' = [inflight EXCEPT ![k] = Idle]
    /\ UNCHANGED <<variant, now, ticks, nextUuid, nextPost, posts, view_tokens,
                   admin_sessions, sessions, issued, revoked, last>>

ViewArrives == \E k \in Slots : ViewArrive(k)
ViewReads == \E k \in Slots : ViewRead(k)
ViewInserts == \E k \in Slots : ViewInsert(k)
ViewFinishes == \E k \in Slots : ViewFinish(k)
ViewResponds == \E k \in Slots : ViewRespond(k)

NextView ==
    \/ DoCreate
    \/ ViewArrives
    \/ ViewReads
    \/ ViewInserts
    \/ ViewFinishes
    \/ ViewResponds

SpecView == Init /\ [][NextView]_vars

(* ------------- local writes of the post data, concurrently -------------- *)
\* Local create, PUT and DELETE handled step by step: the handler awaits the
\* request body (readJson), and everything after that await (readData, the
\* checks, the change, writeData and the response) runs without another await.

\* The request has arrived and its body is being read. The requests taken are
\* a create, and a PUT or DELETE that carries the password of a stored post,
\* with or without a session cookie of an earlier response. seen is the data
\* file at this instant, overlap whether another request is at its await.
WriteArrive(k) ==
    /\ ~Hosted
    /\ inflight[k].pc = "idle"
    /\ \E op \in {"create", "put", "delete"} :
       \E id \in (IF op = "create" THEN {""} ELSE DOMAIN posts), sid \in SidRaws :
       \E password \in (IF op = "create" THEN {<<"pa">>}
                        ELSE {p \in Passwords : passwordOk(id, [password |-> p])}) :
          inflight' =
             [j \in Slots |->
                IF j = k
                THEN [pc |-> "body", op |-> op, id |-> id,
                      r |-> IF op = "create"
                            THEN Req(<<>>, <<>>, TRUE, password, <<>>, "t0", "c0", "au")
                            ELSE Body(<<>>, sid, password, <<>>, "t1", "c1"),
                      seen |-> posts, resp |-> Resp(0, ""),
                      overlap |-> \E i \in Slots \ {k} : inflight[i].pc = "body"]
                ELSE IF inflight[j].pc = "body"
                THEN [inflight[j] EXCEPT !.overlap = TRUE]
                ELSE inflight[j]]
    /\ UNCHANGED <<variant, now, ticks, nextUuid, nextPost, posts, view_tokens,
                   admin_sessions, sessions, issued, revoked, last>>

\* A handler that read the data file before its await.
readData_AtArrival(q) == q.seen

\* readData(): the data file as the handler finds it after its await.
readData(q) == posts

\* writeData(data) after the handler changed what it read: the entries the
\* handler set or added are those of its outcome, the one it spliced out is
\* gone, every other entry is as it was read.
writeData(data, o) ==
    LET set == {id \in DOMAIN o.posts : id \notin DOMAIN posts \/ o.posts[id] # posts[id]}
        gone == DOMAIN posts \ DOMAIN o.posts
    IN [id \in (DOMAIN data \ gone) \cup set |->
          IF id \in set THEN o.posts[id] ELSE data[id]]

\* What the handler does after its await, o being its outcome: the data file
\* is written when the handler succeeded, the session it unlocked is kept and
\* the response is ready.
WriteApply(k, o) ==
    /\ o.nextUuid <= MaxMint
    /\ o.nextPost <= MaxPosts
    /\ posts' = IF o.resp.status \in {200, 201}
                THEN writeData(readData(inflight[k]), o)
                ELSE posts
    /\ sessions' = o.sessions
    /\ nextUuid' = o.nextUuid
    /\ nextPost' = o.nextPost
    /\ issued' = issued \cup Handed(inflight[k].op, inflight[k].id, inflight[k].r, o.resp)
    /\ inflight' = [inflight EXCEPT ![k].pc = "done", ![k].resp = o.resp]
    /\ UNCHANGED <<variant, now, ticks, view_tokens, admin_sessions, revoked, last>>

\* The body has been read: the rest of the handler in one step.
WriteFinish(k) ==
    /\ ~Hosted
    /\ inflight[k].pc = "body"
    /\ \/ inflight[k].op = "create"
          /\ WriteApply(k, LocalCreate(inflight[k].r))
       \/ inflight[k].op = "put"
          /\ WriteApply(k, LocalPut(inflight[k].id, inflight[k].r))
       \/ inflight[k].op = "delete"
          /\ WriteApply(k, LocalDelete(inflight[k].id, inflight[k].r))

\* The client has the response.
WriteRespond(k) ==
    /\ ~Hosted
    /\ inflight[k].pc = "done"
    /\ inflight' = [inflight EXCEPT ![k] = Idle]
    /\ UNCHANGED <<variant, now, ticks, nextUuid, nextPost, posts, view_tokens,
                   admin_sessions, sessions, issued, revoked, last>>

NextWrite ==
    \/ \E k \in Slots : WriteArrive(k)
    \/ \E k \in Slots : WriteFinish(k)
    \/ \E k \in Slots : WriteRespond(k)

SpecWrite == Init /\ [][NextWrite]_vars

(* ----------------------- history the claims use ------------------------ *)
IssuedOf(kind) == {c \in issued : c.kind = kind}

\* The cookie values POST /api/admin/login has set.
LoginCookies == {c.raw : c \in IssuedOf("admin")}

AdminCookie(raw) == NoBody(raw, <<>>)
PutReq(admin, sid, password, viewToken) ==
    Body(admin, sid, password, viewToken, "t1", "c1")
DeleteReq(admin, sid, password, viewToken) ==
    Body(admin, sid, password, viewToken, "", "")
ViewReq(admin, sid, password) == Body(admin, sid, password, <<>>, "", "")

\* Hosted: the stored rows of an issued token.
AdminRowsOf(c) ==
    {s \in admin_sessions : /\ s.token_hash = tokenHashOf(splitToken(c.raw))
                            /\ s.token_salt = splitToken(c.raw).salt}
ViewRowsOf(c) ==
    {t \in view_tokens : /\ t.token_hash = tokenHashOf(splitToken(c.raw))
                         /\ t.token_salt = splitToken(c.raw).salt}

\* Texts a client can assemble from two issued hosted tokens: the secret of
\* one with the salt of the other.
Mixed ==
    {splitToken(c.raw).token \o <<Dot>> \o splitToken(d.raw).salt :
        c \in {x \in issued : ~splitToken(x.raw).null},
        d \in {x \in issued : ~splitToken(x.raw).null}}

(* ------------------------------- claims -------------------------------- *)

\* C2: hosted. A request is admin only if its woldecks.admin cookie splits into
\* (secret, salt) matching an unexpired admin_sessions row, and that cookie was
\* set by a login; every admin_sessions row belongs to a cookie a login set; a
\* login with an empty or wrong password inserts no row, draws no token and
\* sets no cookie; a view token presented as the admin cookie is never admin.
C2_AdminOnlyByLogin ==
    Hosted =>
      /\ \A raw \in Raws \cup Mixed :
            isAdminHosted(AdminCookie(raw), AllOk) =>
               /\ ~splitToken(raw).null
               /\ raw \in LoginCookies
               /\ \E s \in admin_sessions :
                     /\ s.token_hash = tokenHashOf(splitToken(raw))
                     /\ s.token_salt = splitToken(raw).salt
                     /\ s.expires_at > now
      /\ \A s \in admin_sessions : \E c \in IssuedOf("admin") : s \in AdminRowsOf(c)
      /\ \A password \in LoginPasswords \ {ADMIN_PASSWORD}, jsonOk \in BOOLEAN :
            LET o == HostedLogin(Req(<<>>, <<>>, jsonOk, password, <<>>, "", "", ""),
                                 AllOk)
            IN /\ o.resp.status \in {400, 401}
               /\ o.resp.cookieName = ""
               /\ o.admin_sessions = admin_sessions
               /\ o.nextUuid = nextUuid
      /\ \A c \in IssuedOf("view") : ~isAdminHosted(AdminCookie(c.raw), AllOk)

\* C2 witness: a login has set an admin cookie that makes a request admin,
\* while a view token of the same store does not.
C2_Witness ==
    /\ Hosted
    /\ \E c \in IssuedOf("admin") : isAdminHosted(AdminCookie(c.raw), AllOk)
    /\ \E c \in IssuedOf("view") :
          /\ ViewRowsOf(c) # {}
          /\ ~isAdminHosted(AdminCookie(c.raw), AllOk)

\* C3: local. A request is admin only if its woldecks.admin cookie is one a
\* login set (a signed session id created by POST /api/admin/login) whose
\* session is still stored; a session id created by getOrCreateSession never
\* makes a request admin.
C3_LocalAdminOnlyByLogin ==
    ~Hosted =>
      \A raw \in Raws :
         isAdminLocal(AdminCookie(raw)) =>
            /\ raw \in LoginCookies
            /\ verifySigned(raw) \in DOMAIN sessions

\* A request is admin-authenticated: its admin cookie was set by a login.
LoggedIn(r) == r.admin \in LoginCookies /\ isAdmin(r, AllOk)

\* The requests a handler of a post can get: any text in each credential.
PostRequests ==
    {Body(admin, sid, password, viewToken, "t1", "c1") :
        admin \in Raws, sid \in SidRaws, viewToken \in TokenRaws,
        password \in Passwords}

\* Post P is as it was, in the posts an outcome leaves.
Untouched(o, id) == id \in DOMAIN o.posts /\ o.posts[id] = posts[id]

\* C1: both variants. A PUT or DELETE changes or removes an existing post P
\* only if the request was admin-authenticated, or presented a stored unexpired
\* view credential obtained for P, or presented P's correct password; no other
\* request changes or removes a post.
C1_MutationOnlyIfAuthorized ==
    \A id \in DOMAIN posts :
       /\ \A r \in PostRequests :
             \/ LoggedIn(r)
             \/ credentialOk(id, r, AllOk)
             \/ passwordOk(id, r)
             \/ /\ Untouched(Put(id, r, AllOk), id)
                /\ Untouched(Delete(id, r, AllOk), id)
       /\ \A r \in PostRequests, other \in PostIds :
             /\ Untouched(View(other, r, AllOk), id)
             /\ Untouched(Get(other, r, AllOk), id)
             /\ Untouched(Create(r, AllOk), id)
             /\ Untouched(Login(r, AllOk), id)
             /\ Untouched(Logout(r, AllOk), id)
             /\ Untouched(Me(r, AllOk), id)
             /\ other # id => /\ Untouched(Put(other, r, AllOk), id)
                              /\ Untouched(Delete(other, r, AllOk), id)

\* The cookies of logins whose session the store still holds and accepts.
LiveLoginCookies ==
    {c.raw : c \in {d \in IssuedOf("admin") :
                      IF Hosted THEN AdminRowsOf(d) # {} /\ now < d.at + ADMIN_TTL
                      ELSE verifySigned(d.raw) \in DOMAIN sessions}}

\* C4: both variants. For an admin-authenticated caller a PUT with non-empty
\* title and content, and a DELETE, on any existing post succeed, with no
\* password and no view token and equally with a wrong password or an invalid
\* view token.
C4_AdminBypass ==
    \A admin \in LiveLoginCookies, id \in DOMAIN posts, sid \in SidRaws,
       viewToken \in TokenRaws, password \in Passwords :
       LET put == Put(id, PutReq(admin, sid, password, viewToken), AllOk)
           del == Delete(id, DeleteReq(admin, sid, password, viewToken), AllOk)
       IN /\ put.resp.status = 200
          /\ put.posts[id].title = "t1" /\ put.posts[id].content = "c1"
          /\ del.resp.status = 200
          /\ id \notin DOMAIN del.posts

\* C4 witness: an admin PUT has been let through on the admin branch, and in
\* the state it left a wrong password and a bad token do not stop the next.
C4_Witness ==
    /\ last.op = "put" /\ last.status = 200 /\ last.via = "admin"
    /\ last.id \in DOMAIN posts /\ posts[last.id].title = "t1"
    /\ \E admin \in LiveLoginCookies :
          /\ ~passwordOk(last.id, PutReq(admin, <<>>, <<"pb">>, <<"x">>))
          /\ Put(last.id, PutReq(admin, <<>>, <<"pb">>, <<"x">>), AllOk).resp.status = 200

\* C5: both variants. After a view of P with the correct password returned
\* token T, a later PUT on P (still stored) that presents T and no password,
\* with the cookies the view left the caller and before T expires, succeeds.
C5_TokenThenEdit ==
    \A c \in IssuedOf("view") :
       (/\ c.post \in DOMAIN posts
        /\ Hosted => now < c.at + VIEW_TTL)
       => Put(c.post, PutReq(<<>>, c.cookie, <<>>, c.raw), AllOk).resp.status = 200

\* The requests of C6: a PUT or DELETE on B by a caller the server does not
\* take for admin, presenting the token issued for A and no password.
OtherTokenCases ==
    {<<c, b, admin, sid>> \in issued \X (DOMAIN posts) \X Raws \X SidRaws :
        /\ c.kind = "view"
        /\ c.post # b
        /\ ~isAdmin(AdminCookie(admin), AllOk)}

\* Local: the session the request's session cookie names has itself unlocked B.
SessionUnlocked(sid, b) ==
    /\ ~Hosted
    /\ getSessionId(NoBody(<<>>, sid)) \in DOMAIN sessions
    /\ b \in sessions[getSessionId(NoBody(<<>>, sid))].verified

\* C6 as stated: a view token issued for A never authorizes a mutation of
\* another post B; the request is rejected with 401 in every state of the store.
C6_OtherTokenRejected ==
    \A x \in OtherTokenCases :
       /\ Put(x[2], PutReq(x[3], x[4], <<>>, x[1].raw), AllOk).resp.status = 401
       /\ Delete(x[2], DeleteReq(x[3], x[4], <<>>, x[1].raw), AllOk).resp.status = 401

\* C6 amended: the request is rejected with 401 and changes nothing, unless (local
\* variant) its session cookie names a session that has itself unlocked B: then
\* it succeeds through that session, whatever token it presents.
C6_OtherTokenRejectedUnlessSessionUnlocked ==
    \A x \in OtherTokenCases :
       LET put == Put(x[2], PutReq(x[3], x[4], <<>>, x[1].raw), AllOk)
           del == Delete(x[2], DeleteReq(x[3], x[4], <<>>, x[1].raw), AllOk)
       IN IF SessionUnlocked(x[4], x[2])
          THEN /\ put.resp.status = 200
               /\ del.resp.status = 200
               /\ Put(x[2], PutReq(x[3], x[4], <<>>, <<"x">>), AllOk).resp.status = 200
          ELSE /\ put.resp.status = 401 /\ put.posts = posts
               /\ del.resp.status = 401 /\ del.posts = posts

\* C6 witness: a token issued for A still opens A, and presented on another
\* stored post B it is rejected.
C6_Witness ==
    \E x \in OtherTokenCases :
       /\ x[1].post \in DOMAIN posts
       /\ x[3] = <<>>
       /\ x[4] = x[1].cookie
       /\ Put(x[1].post, PutReq(<<>>, x[4], <<>>, x[1].raw), AllOk).resp.status = 200
       /\ last.op = "put" /\ last.id = x[1].post /\ last.via = "credential"
       /\ Put(x[2], PutReq(<<>>, x[4], <<>>, x[1].raw), AllOk).resp.status = 401

\* C7: hosted. A view token (1h) or admin session token (24h) issued with
\* expiry t, while its record is stored, is accepted at every check before t
\* and rejected at every check at or after t.
C7_ExpiryMonotone ==
    Hosted =>
      /\ \A c \in IssuedOf("admin") :
            AdminRowsOf(c) # {} =>
               (isAdminHosted(AdminCookie(c.raw), AllOk) <=> now < c.at + ADMIN_TTL)
      /\ \A c \in IssuedOf("view") :
            ViewRowsOf(c) # {} =>
               (tokenAuthorized(c.post, PutReq(<<>>, <<>>, <<>>, c.raw), AllOk)
                   <=> now < c.at + VIEW_TTL)

\* C7 witness: the record of an expired view token is still stored and the
\* token is rejected, while an admin token issued with it is still accepted.
C7_Witness ==
    /\ Hosted
    /\ \E c \in IssuedOf("view") :
          /\ ViewRowsOf(c) # {}
          /\ now >= c.at + VIEW_TTL
          /\ Put(c.post, PutReq(<<>>, <<>>, <<>>, c.raw), AllOk).resp.status = 401
    /\ \E c \in IssuedOf("admin") :
          /\ now > c.at /\ now < c.at + ADMIN_TTL
          /\ isAdminHosted(AdminCookie(c.raw), AllOk)

\* The requests of C8: a PUT or DELETE on an existing post by a caller that is
\* not admin and presents no valid view credential but the post's password.
FallbackCases ==
    {<<id, sid, viewToken, password>> \in
        (DOMAIN posts) \X SidRaws \X TokenRaws \X Passwords :
        LET r == PutReq(<<>>, sid, password, viewToken)
        IN /\ ~isAdmin(r, AllOk)
           /\ ~credentialOk(id, r, AllOk)
           /\ passwordOk(id, r)}

\* The view tokens the sessions of ss hold.
TokensOf(ss) ==
    UNION {{ss[s].tokens[p] : p \in DOMAIN ss[s].tokens} : s \in DOMAIN ss}

\* Local: outcome o recorded a fresh token for post id in the session of
\* request r, creating the session and setting its cookie if r had none.
RecordedInSession(o, id, r) ==
    LET sid == getSessionId(r)
        has == sid # <<>> /\ sid \in DOMAIN sessions
    IN \E s \in DOMAIN o.sessions :
          /\ id \in o.sessions[s].verified
          /\ id \in DOMAIN o.sessions[s].tokens
          /\ o.sessions[s].tokens[id] \notin TokensOf(sessions)
          /\ IF has THEN s = sid /\ o.resp.cookieName = ""
             ELSE /\ s \notin DOMAIN sessions
                  /\ o.resp.cookieName = "woldecks.sid"
                  /\ verifySigned(o.resp.cookieValue) = s

IsPasswordOf(id, password) ==
    /\ password # <<>>
    /\ IF Hosted
       THEN pbkdf2Hash(password, posts[id].pw_salt_hex, posts[id].pw_iterations,
                       posts[id].pw_keylen, "SHA-256") = posts[id].pw_hash_hex
       ELSE pbkdf2Hash(password, posts[id].password.saltHex,
                       posts[id].password.iterations, posts[id].password.keylen,
                       posts[id].password.digest) = posts[id].password.hashHex

\* The requests of C9: a POST view of an existing post by a caller that is
\* not admin.
ViewCases ==
    {<<id, admin, sid, password>> \in
        (DOMAIN posts) \X Raws \X SidRaws \X Passwords :
        ~isAdmin(AdminCookie(admin), AllOk)}

\* The record of token raw, scoped to post id, is in the store outcome o leaves
\* and was not in the store before.
TokenRecorded(o, id, r, raw) ==
    IF Hosted
    THEN /\ ~splitToken(raw).null
         /\ \E row \in o.view_tokens \ view_tokens :
               /\ row.post_id = id
               /\ row.token_hash = tokenHashOf(splitToken(raw))
               /\ row.token_salt = splitToken(raw).salt
               /\ row.expires_at = now + VIEW_TTL
    ELSE /\ RecordedInSession(o, id, r)
         /\ \E s \in DOMAIN o.sessions :
               /\ id \in DOMAIN o.sessions[s].tokens
               /\ o.sessions[s].tokens[id] = raw

\* C9: both variants. A POST view by a caller that is not admin, with the
\* post's correct password, returns 200 with the post's content and a newly
\* minted view token whose record, scoped to that post, is in the store the
\* handler leaves; with a wrong (or empty) password it returns 401 with
\* neither content nor token, and stores nothing.
C9_ViewExchange ==
    \A x \in ViewCases :
       LET r == ViewReq(x[2], x[3], x[4])
           o == View(x[1], r, AllOk)
       IN IF IsPasswordOf(x[1], x[4])
          THEN /\ o.resp.status = 200
               /\ o.resp.post = {PostView(posts[x[1]])}
               /\ o.resp.viewToken # <<>>
               /\ o.resp.viewToken \notin {c.raw : c \in issued}
               /\ TokenRecorded(o, x[1], r, o.resp.viewToken)
          ELSE /\ o.resp.status = 401
               /\ o.resp.post = {}
               /\ o.resp.viewToken = <<>>
               /\ o = Same(o.resp)

\* C9 witness: a view has been let through on the password and the token it
\* returned is recorded for that post, while a view of the same post with a
\* wrong password is refused.
C9_Witness ==
    /\ last.op = "view" /\ last.status = 200 /\ last.via = "password"
    /\ last.id \in DOMAIN posts
    /\ \E c \in IssuedOf("view") :
          /\ c.post = last.id
          /\ IF Hosted THEN \E row \in ViewRowsOf(c) : row.post_id = last.id
             ELSE \E s \in DOMAIN sessions :
                     /\ last.id \in DOMAIN sessions[s].tokens
                     /\ sessions[s].tokens[last.id] = c.raw
    /\ \E password \in Passwords \ {<<>>} :
          /\ ~IsPasswordOf(last.id, password)
          /\ View(last.id, ViewReq(<<>>, <<>>, password), AllOk).resp.status = 401

\* C10: both variants. A POST view of an existing post by an admin-authenticated
\* caller returns 200 with the post's content, with no password in the request
\* (with a JSON body without password, or with a body the server never reads).
C10_AdminViewReturnsContent ==
    \A admin \in LiveLoginCookies, id \in DOMAIN posts :
       /\ View(id, ViewReq(admin, <<>>, <<>>), AllOk).resp.status = 200
       /\ View(id, ViewReq(admin, <<>>, <<>>), AllOk).resp.post = {PostView(posts[id])}
       /\ View(id, AdminCookie(admin), AllOk).resp.status = 200
       /\ View(id, AdminCookie(admin), AllOk).resp.post = {PostView(posts[id])}

DeletedIds == {PostId(i) : i \in 1..nextPost} \ DOMAIN posts

\* C12: both variants. After a successful DELETE of a post the store holds no
\* view credential for its id: no view_tokens row (hosted), and no
\* session.verified or session.tokens entry (local).
C12_NoCredentialForDeleted ==
    \A id \in DeletedIds :
       /\ \A t \in view_tokens : t.post_id # id
       /\ \A s \in DOMAIN sessions :
             /\ id \notin sessions[s].verified
             /\ id \notin DOMAIN sessions[s].tokens

\* C13: both variants. After a post has been deleted, a DELETE for its id by a
\* caller that is not admin, presenting only the view token issued for it
\* before the deletion (no password; with the cookies the view left, or none),
\* is answered 404.
C13_StaleTokenNotFound ==
    \A c \in IssuedOf("view") :
       c.post \in DeletedIds =>
          /\ Delete(c.post, DeleteReq(<<>>, c.cookie, <<>>, c.raw), AllOk).resp.status = 404
          /\ Delete(c.post, DeleteReq(<<>>, <<>>, <<>>, c.raw), AllOk).resp.status = 404

\* Ids no stored post has: of deleted posts, and the next one not yet given.
MissingIds == {PostId(i) : i \in 1..(nextPost + 1)} \ DOMAIN posts

\* C14: both variants. A PUT or DELETE by a caller that is not admin, carrying
\* a password and no view token, gets the same unauthorized (401) response
\* when the post id does not exist as when the post exists and the password is
\* wrong.
C14_MissingLooksLikeWrongPassword ==
    \A id \in DOMAIN posts, missing \in MissingIds, password \in Passwords \ {<<>>} :
       ~IsPasswordOf(id, password) =>
          LET put == Put(missing, PutReq(<<>>, <<>>, password, <<>>), AllOk).resp
              del == Delete(missing, DeleteReq(<<>>, <<>>, password, <<>>), AllOk).resp
          IN /\ put.status = 401
             /\ put = Put(id, PutReq(<<>>, <<>>, password, <<>>), AllOk).resp
             /\ del.status = 401
             /\ del = Delete(id, DeleteReq(<<>>, <<>>, password, <<>>), AllOk).resp

\* C15: both variants. For PUT, DELETE and view on an existing post, the
\* response (status and body) to a request of a caller that is not admin and
\* supplies no credential at all is the same as the response to one that
\* supplies an invalid credential (a wrong password, a view token no record
\* matches, or both).
C15_UniformRejection ==
    \A id \in DOMAIN posts, password \in Passwords, viewToken \in {<<>>, <<"x">>} :
       (/\ ~IsPasswordOf(id, password)
        /\ <<password, viewToken>> # <<<<>>, <<>>>>)
       => /\ Put(id, PutReq(<<>>, <<>>, password, viewToken), AllOk).resp
                = Put(id, PutReq(<<>>, <<>>, <<>>, <<>>), AllOk).resp
          /\ Delete(id, DeleteReq(<<>>, <<>>, password, viewToken), AllOk).resp
                = Delete(id, DeleteReq(<<>>, <<>>, <<>>, <<>>), AllOk).resp
          /\ View(id, ViewReq(<<>>, <<>>, password), AllOk).resp
                = View(id, ViewReq(<<>>, <<>>, <<>>), AllOk).resp

\* A request answered 400 that left posts, token records and sessions (and
\* the random draws) as they were.
Rejected400(o) == o.resp.status = 400 /\ o = Same(o.resp)

\* The cookies and body credentials a request can combine, as <<admin cookie,
\* session cookie, password, viewToken>>.
AnyCredentials == Raws \X SidRaws \X Passwords \X TokenRaws

\* PUT, DELETE, create and login with a body that is not JSON or with a
\* required field missing, whatever credentials they carry: all answered 400
\* with nothing changed.
ValidatedFirst ==
    \A x \in AnyCredentials :
       /\ \A id \in PostIds :
             /\ Rejected400(Put(id, NoBody(x[1], x[2]), AllOk))
             /\ Rejected400(Delete(id, NoBody(x[1], x[2]), AllOk))
             /\ \A text \in {<<"", "c1">>, <<"t1", "">>, <<"", "">>} :
                   Rejected400(Put(id, Body(x[1], x[2], x[3], x[4], text[1], text[2]),
                                   AllOk))
       /\ Rejected400(Create(NoBody(x[1], x[2]), AllOk))
       /\ \A f \in {<<"", "au", "c0", <<"pa">>>>, <<"t0", "", "c0", <<"pa">>>>,
                    <<"t0", "au", "", <<"pa">>>>, <<"t0", "au", "c0", <<>>>>} :
             Rejected400(Create(Req(x[1], x[2], TRUE, f[4], <<>>, f[1], f[3], f[2]),
                                AllOk))
       /\ Rejected400(Login(NoBody(x[1], x[2]), AllOk))
       /\ Rejected400(Login(Body(x[1], x[2], <<>>, x[4], "", ""), AllOk))

RefusedCleanly(o) ==
    o.resp.status = 401 =>
       /\ o = Same(o.resp)
       /\ o.resp.cookieName = ""
       /\ o.resp.viewToken = <<>>
       /\ o.resp.post = {}

\* C17: both variants. A PUT, DELETE or view that is rejected with 401 leaves
\* every post, every token record and every session exactly as before the
\* request, and creates no session and no token.
C17_RefusalChangesNothing ==
    \A id \in PostIds, x \in AnyCredentials :
       /\ RefusedCleanly(Put(id, PutReq(x[1], x[2], x[3], x[4]), AllOk))
       /\ RefusedCleanly(Delete(id, DeleteReq(x[1], x[2], x[3], x[4]), AllOk))
       /\ RefusedCleanly(View(id, ViewReq(x[1], x[2], x[3]), AllOk))

\* C17 witness: with a view token on record for a post, a view, a PUT and a
\* DELETE of that post with a wrong password are refused with 401.
C17_Witness ==
    \E c \in IssuedOf("view"), password \in Passwords \ {<<>>} :
       /\ c.post \in DOMAIN posts
       /\ ~IsPasswordOf(c.post, password)
       /\ IF Hosted THEN ViewRowsOf(c) # {} ELSE c.raw \in TokensOf(sessions)
       /\ View(c.post, ViewReq(<<>>, <<>>, password), AllOk).resp.status = 401
       /\ Put(c.post, PutReq(<<>>, <<>>, password, <<>>), AllOk).resp.status = 401
       /\ Delete(c.post, DeleteReq(<<>>, <<>>, password, <<"x">>), AllOk).resp.status = 401

\* The record of an issued view token is in the store, for its post, and has
\* not expired.
ValidToken(c) ==
    /\ c.kind = "view"
    /\ c.post \in DOMAIN posts
    /\ IF Hosted
       THEN \E row \in ViewRowsOf(c) : row.post_id = c.post /\ row.expires_at > now
       ELSE \E s \in DOMAIN sessions :
               /\ c.post \in DOMAIN sessions[s].tokens
               /\ sessions[s].tokens[c.post] = c.raw

\* The requests of C18: a PUT or DELETE by a caller that is not admin that
\* presents a valid view token for the target post and no password, with any
\* cookies, as <<token, admin cookie, session cookie>>.
BearerCases ==
    {x \in issued \X Raws \X SidRaws :
        /\ ValidToken(x[1])
        /\ ~isAdmin(AdminCookie(x[2]), AllOk)}

\* Local: the session cookie names a stored session that holds this token for
\* the post or has unlocked the post.
HeldBySession(sid, c) ==
    LET s == verifySigned(sid)
    IN /\ sid # <<>>
       /\ s \in DOMAIN sessions
       /\ \/ c.post \in sessions[s].verified
          \/ /\ c.post \in DOMAIN sessions[s].tokens
             /\ sessions[s].tokens[c.post] = c.raw

\* C18 as stated: both variants. A valid unexpired view token for the target
\* post, with no password, authorizes a PUT or DELETE by a caller that is not
\* admin whatever cookies (including none) accompany it.
C18_TokenIsBearer ==
    \A x \in BearerCases :
       /\ Put(x[1].post, PutReq(x[2], x[3], <<>>, x[1].raw), AllOk).resp.status = 200
       /\ Delete(x[1].post, DeleteReq(x[2], x[3], <<>>, x[1].raw), AllOk).resp.status = 200

\* C18 amended: hosted, the token authorizes the request whatever cookies
\* accompany it. Local, the token is bound to the session it was issued in:
\* the request is authorized exactly when its woldecks.sid cookie names a
\* stored session that holds this token for the post or has unlocked the
\* post; with any other session cookie, or none, it is refused with 401.
C18_TokenIsBearerOrSessionBound ==
    \A x \in BearerCases :
       LET put == Put(x[1].post, PutReq(x[2], x[3], <<>>, x[1].raw), AllOk).resp
           del == Delete(x[1].post, DeleteReq(x[2], x[3], <<>>, x[1].raw), AllOk).resp
       IN IF Hosted \/ HeldBySession(x[3], x[1])
          THEN put.status = 200 /\ del.status = 200
          ELSE /\ put.status = 401 /\ put.error = "Password required"
               /\ del.status = 401 /\ del.error = "Password required"

\* C18 witness: a PUT has been let through on a view token, and the token is
\* still valid; hosted, it is accepted with a foreign cookie and with none;
\* local, it is accepted with its session's cookie and refused without.
C18_Witness ==
    /\ last.op = "put" /\ last.status = 200 /\ last.via = "credential"
    /\ \E c \in IssuedOf("view") :
          /\ c.post = last.id
          /\ ValidToken(c)
          /\ IF Hosted
             THEN /\ Put(c.post, PutReq(<<"x">>, <<>>, <<>>, c.raw), AllOk).resp.status = 200
                  /\ Put(c.post, PutReq(<<>>, <<>>, <<>>, c.raw), AllOk).resp.status = 200
             ELSE /\ Put(c.post, PutReq(<<>>, c.cookie, <<>>, c.raw), AllOk).resp.status = 200
                  /\ Put(c.post, PutReq(<<>>, <<>>, <<>>, c.raw), AllOk).resp.status = 401

\* The view requests that have been answered and carried the post's password.
AnsweredViews ==
    {k \in Slots : /\ inflight[k].pc = "done"
                   /\ inflight[k].id \in DOMAIN posts
                   /\ IsPasswordOf(inflight[k].id, inflight[k].r.password)}

\* The store is well formed: every token row belongs to a stored post and
\* every token returned has its row; a session has unlocked stored posts only
\* and holds, for each of them, a token that a view of that post returned.
StoreIntact ==
    /\ \A t \in view_tokens : t.post_id \in DOMAIN posts
    /\ Hosted => Cardinality(view_tokens) = Cardinality(IssuedOf("view"))
    /\ \A s \in DOMAIN sessions :
          /\ sessions[s].verified \subseteq DOMAIN posts
          /\ DOMAIN sessions[s].tokens = sessions[s].verified
          /\ \A id \in DOMAIN sessions[s].tokens :
                \E c \in IssuedOf("view") :
                   c.post = id /\ c.raw = sessions[s].tokens[id]

AnyRequests ==
    {Body(admin, sid, password, viewToken, text, text) :
        admin \in Raws, sid \in SidRaws, password \in Passwords,
        viewToken \in TokenRaws, text \in {"", "t1"}}
    \cup {b : b \in UNION {{NoBody(admin, sid), NullBody(admin, sid)} :
                              admin \in Raws, sid \in SidRaws}}

\* The handler has written a response.
Answered(o) == o.resp.status # 0

\* C20: both variants. Every request a handler takes is answered: the handler
\* writes a response, whatever the cookies and the body of the request.
C20_EveryRequestAnswered ==
    \A r \in AnyRequests :
       /\ Answered(Me(r, AllOk))
       /\ Answered(Login(r, AllOk))
       /\ Answered(Logout(r, AllOk))
       /\ Answered(Create(r, AllOk))
       /\ \A id \in PostIds :
             /\ Answered(Get(id, r, AllOk))
             /\ Answered(View(id, r, AllOk))
             /\ Answered(Put(id, r, AllOk))
             /\ Answered(Delete(id, r, AllOk))

(* --------------------------- calls that throw --------------------------- *)
\* The routes, and the handler of each.
Ops == {"me", "login", "logout", "list", "create", "get", "view", "put", "delete"}

Handle(op, id, r, ok) ==
    CASE op = "me" -> Me(r, ok)
      [] op = "login" -> Login(r, ok)
      [] op = "logout" -> Logout(r, ok)
      [] op = "list" -> List(r, ok)
      [] op = "create" -> Create(r, ok)
      [] op = "get" -> Get(id, r, ok)
      [] op = "view" -> View(id, r, ok)
      [] op = "put" -> Put(id, r, ok)
      [] op = "delete" -> Delete(id, r, ok)

\* The calls that can throw: a persistence read, the password derivation, a
\* persistence write. The local readData catches what its read throws and is
\* not among them.
Throws == IF Hosted THEN {"read", "derive", "write"} ELSE {"derive", "write"}

\* The calls a handler makes for a request when every call before it returns
\* ok: the admin_sessions lookup, the view_tokens lookup, the posts read, the
\* password derivation, the write.
CallsOf(op, id, r) ==
    LET o == Handle(op, id, r, AllOk)
        valid == o.resp.status \notin {0, 400}
        admin == isAdmin(r, AllOk)
        adminLookup == /\ Hosted
                       /\ ~splitToken(r.admin).null
                       /\ \/ op \in {"me", "get", "view"}
                          \/ op \in {"put", "delete"} /\ valid
        tokenLookup == /\ Hosted
                       /\ op \in {"put", "delete"} /\ valid /\ ~admin
                       /\ ~splitToken(r.viewToken).null
        fallback == /\ op \in {"put", "delete"} /\ valid /\ ~admin
                    /\ ~credentialOk(id, r, AllOk)
                    /\ r.password # <<>>
        postsRead == /\ Hosted
                     /\ \/ fallback
                        \/ op = "list"
                        \/ op \in {"get", "view"} /\ admin
                        \/ op = "view" /\ ~admin /\ r.json /\ r.password # <<>>
        derive == \/ op = "create" /\ o.resp.status = 201
                  \/ /\ id \in DOMAIN posts
                     /\ \/ fallback
                        \/ op = "view" /\ ~admin /\ r.parsed /\ r.json
                           /\ r.password # <<>>
        write == \/ op = "create" /\ o.resp.status = 201
                 \/ op \in {"put", "delete"} /\ o.resp.status = 200
                 \/ Hosted /\ op \in {"view", "login"} /\ o.resp.status = 200 /\ ~admin
                 \/ Hosted /\ op = "logout" /\ ~splitToken(r.admin).null
    IN {c \in {"admin"} : adminLookup}
       \cup {c \in {"tok"} : tokenLookup}
       \cup {c \in {"read"} : postsRead}
       \cup {c \in {"derive"} : derive}
       \cup {c \in {"write"} : write}

\* The same calls by kind: both lookups are persistence reads.
Reaches(op, id, r) ==
    {IF c \in {"admin", "tok"} THEN "read" ELSE c : c \in CallsOf(op, id, r)}

\* How a request ends when the call th throws. Hosted, the catch of fetch
\* answers 500 and no write has been made. Local, the async handler has no
\* catch: the rejection leaves it with no response written; a thrown writeData
\* comes after the session was unlocked by the password fallback.
Throwing(op, id, r, th) ==
    LET o == Handle(op, id, r, AllOk)
    IN IF th \notin Reaches(op, id, r) THEN [o |-> o, escaped |-> FALSE]
       ELSE IF Hosted
       THEN [o |-> Same([Resp(500, "Worker error") EXCEPT !.detail = "thrown"]),
             escaped |-> FALSE]
       ELSE IF th = "derive"
       THEN [o |-> Same(Resp(0, "")), escaped |-> TRUE]
       ELSE [o |-> [Same(Resp(0, "")) EXCEPT !.sessions = o.sessions,
                                             !.nextUuid = o.nextUuid],
             escaped |-> TRUE]

\* Requests with a body that passes validation, and requests without a body.
ThrowRequests ==
    {Req(admin, sid, TRUE, password, viewToken, "t1", "c1", "au") :
        admin \in CookieRaws, sid \in SidRaws, password \in Passwords,
        viewToken \in TokenRaws}
    \cup {NoBody(admin, <<>>) : admin \in CookieRaws}

\* C21: both variants. When a persistence read or write or the password
\* derivation throws while a request is handled, the request ends with an
\* error response (status 400 or above) and the fault does not leave the
\* handler uncaught.
C21_ThrowsAreAnswered ==
    \A op \in Ops, id \in PostIds, r \in ThrowRequests, th \in Throws :
       th \in Reaches(op, id, r) =>
          /\ ~Throwing(op, id, r, th).escaped
          /\ Throwing(op, id, r, th).o.resp.status >= 400

\* One persistence call returns a status that is not ok.
FailingAt(c) == [AllOk EXCEPT ![c] = FALSE]

\* C22: hosted. When a persistence call a handler makes returns a status that
\* is not ok, the request ends with a 500-class response, never a success or an
\* authentication result: the admin_sessions lookup, the view_tokens lookup,
\* the posts read and every write, the logout delete included.
C22_FailedCallIs500 ==
    Hosted =>
       \A op \in Ops, id \in PostIds, r \in ThrowRequests :
          \A c \in CallsOf(op, id, r) \ {"derive"} :
             Handle(op, id, r, FailingAt(c)).resp.status >= 500

(* ------------------------- password records ----------------------------- *)
\* Passwords and salts the record functions are applied to; the texts of the
\* passwords differ pairwise.
RecordPasswords == {<<>>, <<"pa">>, <<"pb">>, <<"pa", "x">>}
RecordSalts == {"ps1", "ps2"}

\* verifyPassword(p2, makePasswordRecord(p1)) with the salt drawn.
VerifiesMade(p2, p1, saltHex) ==
    IF Hosted THEN verifyPassword(p2, makePasswordRecord(p1, saltHex))
    ELSE verifyPasswordLocal(p2, makePasswordRecordLocal(p1, saltHex))

\* verifyPassword against the record of a stored post.
VerifiesStored(p, id) ==
    IF Hosted THEN verifyPassword(p, posts[id])
    ELSE verifyPasswordLocal(p, posts[id].password)

\* C23: both variants. verifyPassword(p, makePasswordRecord(p)) is true for
\* every password p, and verifyPassword(p2, makePasswordRecord(p1)) is false
\* for every p2 different from p1; of the passwords a client can send, exactly
\* one verifies against the record of a stored post.
C23_RecordRoundTrip ==
    /\ \A p1 \in RecordPasswords, p2 \in RecordPasswords, saltHex \in RecordSalts :
          VerifiesMade(p2, p1, saltHex) <=> (p2 = p1)
    /\ \A id \in DOMAIN posts :
          Cardinality({p \in Passwords : VerifiesStored(p, id)}) = 1

\* C23 witness: two posts are stored, created with different passwords; each
\* password verifies against its own record and not against the other.
C23_Witness ==
    \E id1 \in DOMAIN posts, id2 \in DOMAIN posts :
       /\ VerifiesStored(<<"pa">>, id1) /\ ~VerifiesStored(<<"pb">>, id1)
       /\ VerifiesStored(<<"pb">>, id2) /\ ~VerifiesStored(<<"pa">>, id2)

(* --------------------------- token round trip --------------------------- *)
\* Characters a client can put in place of one character of a token text: a
\* foreign character, the separators, and the characters of issued tokens.
AlterChars ==
    {"x", Dot, ":"} \cup UNION {{c.raw[i] : i \in 1..Len(c.raw)} : c \in issued}

\* The texts that differ from s in exactly one character.
AlteredOnce(s) ==
    {[s EXCEPT ![i] = a] : i \in 1..Len(s), a \in AlterChars} \ {s}

\* secret + "." + salt with one character of the secret, or one of the salt,
\* changed.
AlteredTokens(raw) ==
    LET parts == splitToken(raw)
    IN {secret \o <<Dot>> \o parts.salt : secret \in AlteredOnce(parts.token)}
       \cup {parts.token \o <<Dot>> \o salt : salt \in AlteredOnce(parts.salt)}

\* C24: hosted. For a token made by makeToken whose row is stored and
\* unexpired, the text secret + "." + salt is accepted by the lookup, and every
\* text with one character of the secret or of the salt changed is rejected:
\* view tokens at the view_tokens lookup of their post, admin tokens at the
\* admin_sessions lookup.
C24_TokenRoundTrip ==
    Hosted =>
       /\ \A c \in {d \in IssuedOf("view") : ValidToken(d)} :
             /\ viewTokenRows(c.post, c.raw) # {}
             /\ tokenAuthorized(c.post, PutReq(<<>>, <<>>, <<>>, c.raw), AllOk)
             /\ \A raw \in AlteredTokens(c.raw) :
                   /\ viewTokenRows(c.post, raw) = {}
                   /\ ~tokenAuthorized(c.post, PutReq(<<>>, <<>>, <<>>, raw), AllOk)
       /\ \A admin \in LiveLoginCookies :
             /\ adminSessionFromCookie(AdminCookie(admin), AllOk) # {}
             /\ \A raw \in AlteredTokens(admin) :
                   adminSessionFromCookie(AdminCookie(raw), AllOk) = {}

\* C24 witness: hosted, a view token and an admin token are stored and
\* unexpired, the view token is accepted for its post, and a text with its
\* secret changed in one character and one with its salt changed are rejected.
C24_Witness ==
    /\ Hosted
    /\ LiveLoginCookies # {}
    /\ \E c \in IssuedOf("view") :
          /\ ValidToken(c)
          /\ viewTokenRows(c.post, c.raw) # {}
          /\ \E raw \in AlteredTokens(c.raw) :
                /\ splitToken(raw).salt = splitToken(c.raw).salt
                /\ viewTokenRows(c.post, raw) = {}
          /\ \E raw \in AlteredTokens(c.raw) :
                /\ splitToken(raw).token = splitToken(c.raw).token
                /\ viewTokenRows(c.post, raw) = {}

(* ------------------- authorized without a new token --------------------- *)
\* PUT, DELETE and view requests the server takes as admin, and PUT and DELETE
\* requests of a caller that is not admin whose token or session authorizes
\* them, whatever else they carry.
AdminCases ==
    {<<id, Body(admin, sid, password, viewToken, "t1", "c1")>> :
        id \in DOMAIN posts, admin \in LiveLoginCookies, sid \in SidRaws,
        password \in Passwords, viewToken \in TokenRaws}

TokenCases ==
    {x \in {<<id, Body(admin, sid, password, viewToken, "t1", "c1")>> :
               id \in DOMAIN posts, admin \in Raws \ LiveLoginCookies,
               sid \in SidRaws, password \in Passwords, viewToken \in TokenRaws} :
        /\ ~isAdmin(x[2], AllOk)
        /\ credentialOk(x[1], x[2], AllOk)}

\* The handler inserted no token record, created no session, drew no random
\* value and set no cookie.
NothingMinted(o) ==
    /\ o.view_tokens \subseteq view_tokens
    /\ o.admin_sessions = admin_sessions
    /\ o.sessions = sessions
    /\ o.nextUuid = nextUuid
    /\ o.resp.viewToken = <<>>
    /\ o.resp.cookieName = ""

\* C25 as stated: a PUT, DELETE or view taken as admin, and a PUT or DELETE
\* authorized by a valid view token, leave the token/session store unchanged.
C25_AuthorizedLeavesStore ==
    /\ \A x \in AdminCases :
          /\ NothingMinted(Put(x[1], x[2], AllOk))
          /\ Put(x[1], x[2], AllOk).view_tokens = view_tokens
          /\ NothingMinted(Delete(x[1], x[2], AllOk))
          /\ Delete(x[1], x[2], AllOk).view_tokens = view_tokens
          /\ NothingMinted(View(x[1], x[2], AllOk))
          /\ View(x[1], x[2], AllOk).view_tokens = view_tokens
    /\ \A x \in TokenCases :
          /\ NothingMinted(Put(x[1], x[2], AllOk))
          /\ Put(x[1], x[2], AllOk).view_tokens = view_tokens
          /\ NothingMinted(Delete(x[1], x[2], AllOk))
          /\ Delete(x[1], x[2], AllOk).view_tokens = view_tokens

\* C25 amended: such a request is let through (PUT and DELETE answer 200),
\* inserts no token record, creates no session and mints nothing. PUT and view
\* leave the token/session store unchanged; a hosted DELETE removes the token
\* rows of the post it deletes, and only those.
C25_AuthorizedMintsNothing ==
    \A x \in AdminCases \cup TokenCases :
       LET put == Put(x[1], x[2], AllOk)
           del == Delete(x[1], x[2], AllOk)
           view == View(x[1], x[2], AllOk)
       IN /\ put.resp.status = 200
          /\ NothingMinted(put) /\ put.view_tokens = view_tokens
          /\ del.resp.status = 200
          /\ NothingMinted(del)
          /\ del.view_tokens = {t \in view_tokens : t.post_id # x[1]}
          /\ x \in AdminCases =>
                NothingMinted(view) /\ view.view_tokens = view_tokens

\* C25 witness: an admin cookie and a view token are both live for a stored
\* post; a PUT with either is answered 200 and mints nothing.
C25_Witness ==
    /\ \E x \in AdminCases :
          /\ Put(x[1], x[2], AllOk).resp.status = 200
          /\ NothingMinted(Put(x[1], x[2], AllOk))
    /\ \E x \in TokenCases :
          /\ x[2].password = <<>>
          /\ Put(x[1], x[2], AllOk).resp.status = 200
          /\ NothingMinted(Delete(x[1], x[2], AllOk))

(* --------------------------- first match wins --------------------------- *)
\* A PUT and a DELETE presenting token c with the given cookies and password.
WithToken(op, x, password) ==
    Handle(op, x[1].post, PutReq(x[2], x[3], password, x[1].raw), AllOk)

\* C26 as stated: a PUT or DELETE of a caller that is not admin presenting a
\* valid unexpired view token for the post is authorized whatever its password
\* field holds, with the outcome of the request without password (the post's
\* credential record is not consulted); one presenting a token that does not
\* authorize it together with the correct password is authorized too.
C26_FirstMatchWins ==
    /\ \A x \in BearerCases, password \in Passwords, op \in {"put", "delete"} :
          /\ WithToken(op, x, password).resp.status = 200
          /\ WithToken(op, x, password) = WithToken(op, x, <<>>)
    /\ \A x \in FallbackCases :
          /\ Put(x[1], PutReq(<<>>, x[2], x[4], x[3]), AllOk).resp.status = 200
          /\ Delete(x[1], DeleteReq(<<>>, x[2], x[4], x[3]), AllOk).resp.status = 200

\* C26 amended: the token decides first where it authorizes: hosted always,
\* local when the request's session cookie names the session that holds the
\* token or has unlocked the post; then the password field is not looked at.
\* A local request presenting the token without that session is decided on its
\* password: 200 with the post's password, 401 otherwise. A request whose
\* token does not authorize it and whose password is correct is authorized.
C26_FirstMatchWinsInSession ==
    /\ \A x \in BearerCases, password \in Passwords, op \in {"put", "delete"} :
          IF Hosted \/ HeldBySession(x[3], x[1])
          THEN /\ WithToken(op, x, password).resp.status = 200
               /\ WithToken(op, x, password) = WithToken(op, x, <<>>)
          ELSE WithToken(op, x, password).resp.status =
                  IF IsPasswordOf(x[1].post, password) THEN 200 ELSE 401
    /\ \A x \in FallbackCases :
          /\ Put(x[1], PutReq(<<>>, x[2], x[4], x[3]), AllOk).resp.status = 200
          /\ Delete(x[1], DeleteReq(<<>>, x[2], x[4], x[3]), AllOk).resp.status = 200

\* C26 witness: a PUT presenting a valid token and a wrong password is
\* answered 200, and a PUT presenting a token that is not valid and the right
\* password is answered 200.
C26_Witness ==
    /\ \E x \in BearerCases, password \in Passwords \ {<<>>} :
          /\ ~IsPasswordOf(x[1].post, password)
          /\ WithToken("put", x, password).resp.status = 200
    /\ \E x \in FallbackCases :
          /\ x[3] # <<>>
          /\ Put(x[1], PutReq(<<>>, x[2], x[4], x[3]), AllOk).resp.status = 200

(* ------------------------ view asks the password ------------------------ *)
\* A view request presenting token c with the given cookies and password.
ViewWithToken(x, password) ==
    View(x[1].post, Body(x[2], x[3], password, x[1].raw, "", ""), AllOk)

\* C27: both variants. POST view by a caller that is not admin is decided on
\* the password alone: presenting a valid view token for the post (local: with
\* or without the session that holds it) and no password or a wrong password,
\* it is answered 401, returns no content, mints no token and changes nothing;
\* with the post's password it is answered 200.
C27_ViewIgnoresToken ==
    \A x \in BearerCases, password \in Passwords :
       LET o == ViewWithToken(x, password)
       IN IF IsPasswordOf(x[1].post, password)
          THEN o.resp.status = 200 /\ o.resp.post # {}
          ELSE /\ o.resp.status = 401
               /\ o.resp.post = {}
               /\ o.resp.viewToken = <<>>
               /\ o = Same(o.resp)

\* C27 witness: a view request presenting a valid token, in a way that
\* authorizes a PUT, is refused with 401 without password and with a wrong one.
C27_Witness ==
    \E x \in BearerCases, password \in Passwords \ {<<>>} :
       /\ WithToken("put", x, <<>>).resp.status = 200
       /\ ~IsPasswordOf(x[1].post, password)
       /\ ViewWithToken(x, password).resp.status = 401
       /\ ViewWithToken(x, <<>>).resp.status = 401

(* ------------------------- token records kept --------------------------- *)
\* A step keeps every view_tokens row, except the rows of a post the step
\* deletes.
RowsKept ==
    \A t \in view_tokens :
       \/ t \in view_tokens'
       \/ t.post_id \in DOMAIN posts /\ t.post_id \notin DOMAIN posts'

\* The token a session holds for a post is the same after the step.
EntryKept(s, id) ==
    /\ s \in DOMAIN sessions'
    /\ id \in DOMAIN sessions'[s].tokens
    /\ sessions'[s].tokens[id] = sessions[s].tokens[id]

\* The step replaces the token a session holds for a post by a new one, and
\* the session stays unlocked for the post.
EntryReplaced(s, id) ==
    /\ s \in DOMAIN sessions'
    /\ id \in sessions[s].verified
    /\ id \in sessions'[s].verified
    /\ id \in DOMAIN sessions'[s].tokens
    /\ sessions'[s].tokens[id] \notin {c.raw : c \in issued}

\* A logout step removes the session.
LoggedOut(s) == s \notin DOMAIN sessions' /\ DoLogout

\* The session a local token was issued in is still stored.
SessionStored(c) == Hosted \/ verifySigned(c.cookie) \in DOMAIN sessions

\* The issued view tokens of stored posts that have not expired (hosted) and
\* whose session has not been logged out (local).
CurrentTokens ==
    {c \in IssuedOf("view") : /\ c.post \in DOMAIN posts
                              /\ Hosted => now < c.at + VIEW_TTL
                              /\ SessionStored(c)}

Authorizes(c) ==
    Put(c.post, PutReq(<<>>, c.cookie, <<>>, c.raw), AllOk).resp.status = 200

\* C28 as stated: no step modifies or removes a stored token record, except a
\* logout and the deletion of the record's post; every token issued earlier
\* for a post remains stored and keeps authorizing until its own expiry.
C28_RecordsNeverReplaced ==
    /\ [](\A c \in CurrentTokens : ValidToken(c) /\ Authorizes(c))
    /\ [][/\ RowsKept
          /\ \A s \in DOMAIN sessions :
                \A id \in DOMAIN sessions[s].tokens :
                   EntryKept(s, id) \/ LoggedOut(s)]_vars

\* C28 amended: hosted, rows are only inserted: a row leaves view_tokens only
\* when its post is deleted, and every unexpired token issued for a stored post
\* is stored and authorizes. Local, a session holds one token per post: a later
\* view of the post in the same session replaces the token the session holds,
\* the session stays unlocked, and the earlier token keeps authorizing requests
\* of that session until a logout removes the session.
C28_RecordsKeptOrReplacedInSession ==
    /\ [](\A c \in CurrentTokens :
             /\ Authorizes(c)
             /\ \/ ValidToken(c)
                \/ ~Hosted /\ c.post \in sessions[verifySigned(c.cookie)].verified)
    /\ [][/\ RowsKept
          /\ \A s \in DOMAIN sessions :
                \A id \in DOMAIN sessions[s].tokens :
                   EntryKept(s, id) \/ EntryReplaced(s, id) \/ LoggedOut(s)]_vars

\* C28 witness: two tokens have been issued for the same stored post, the
\* later one minted while the earlier was stored; both authorize a PUT, and
\* hosted both rows are stored.
C28_Witness ==
    \E c \in CurrentTokens, d \in CurrentTokens :
       /\ c.raw # d.raw
       /\ c.post = d.post
       /\ Authorizes(c) /\ Authorizes(d)
       /\ Hosted => ValidToken(c) /\ ValidToken(d)
       /\ ~Hosted => c.cookie = d.cookie /\ ~ValidToken(c) /\ ValidToken(d)

(* ------------------------ credential record kept ------------------------ *)
\* The credential record of a post: salt, iterations, digest, key length and
\* hash.
Credential(post) ==
    IF Hosted
    THEN [saltHex |-> post.pw_salt_hex, iterations |-> post.pw_iterations,
          digest |-> post.pw_digest, keylen |-> post.pw_keylen,
          hashHex |-> post.pw_hash_hex]
    ELSE post.password

\* C29: both variants. After a post is created its credential record never
\* changes: no step changes the credential of a post it keeps, and a PUT,
\* whatever it carries, leaves every field of the post but title and content as
\* it was; the passwords that verify against the post stay the same.
C29_CredentialImmutable ==
    /\ [](\A id \in DOMAIN posts, r \in PostRequests :
             LET o == Put(id, r, AllOk)
             IN /\ id \in DOMAIN o.posts
                /\ Credential(o.posts[id]) = Credential(posts[id])
                /\ o.posts[id] = [posts[id] EXCEPT !.title = o.posts[id].title,
                                                   !.content = o.posts[id].content]
                /\ \A other \in DOMAIN posts \ {id} : o.posts[other] = posts[other])
    /\ [][\A id \in DOMAIN posts \cap DOMAIN posts' :
             Credential(posts'[id]) = Credential(posts[id])]_vars

\* C29 witness: a PUT carrying a password other than the post's has changed
\* the post's title, and the post's own password is still the one that
\* verifies.
C29_Witness ==
    /\ last.op = "put" /\ last.status = 200
    /\ last.id \in DOMAIN posts
    /\ posts[last.id].title = "t1"
    /\ \E p \in Passwords \ {<<>>} :
          /\ ~VerifiesStored(p, last.id)
          /\ Put(last.id, PutReq(<<>>, <<>>, p, <<>>), AllOk).resp.status = 401
    /\ \E p \in Passwords : VerifiesStored(p, last.id)

(* --------------------------- secrets at rest ---------------------------- *)
\* The secret part of a token handed to a client: hosted, the part before the
\* salt; local, the view token itself and the session id an admin cookie signs.
SecretOf(c) ==
    IF Hosted THEN splitToken(c.raw).token
    ELSE IF c.kind = "view" THEN c.raw
    ELSE verifySigned(c.raw)

\* The store holds the secret as it is: hosted, in a column of a token row;
\* local, as a key of the sessions Map or as a token a session holds.
StoreHolds(secret) ==
    IF Hosted
    THEN \E t \in view_tokens \cup admin_sessions :
            t.token_hash = Flat(secret) \/ t.token_salt = secret
    ELSE \/ secret \in DOMAIN sessions
         \/ \E s \in DOMAIN sessions :
               \E id \in DOMAIN sessions[s].tokens : sessions[s].tokens[id] = secret

\* C30: both variants. In every reachable state the store does not hold the
\* secret part of an admin or view token handed to a client: hosted rows carry
\* the hash and the salt and nothing else of the token.
C30_NoSecretStored ==
    /\ \A c \in IssuedOf("admin") \cup IssuedOf("view") : ~StoreHolds(SecretOf(c))
    /\ \A t \in view_tokens :
          DOMAIN t = {"post_id", "token_hash", "token_salt", "expires_at"}
    /\ \A t \in admin_sessions :
          DOMAIN t = {"token_hash", "token_salt", "expires_at"}

(* --------------------------- absent targets ----------------------------- *)
\* C31: both variants. A PUT or DELETE whose target id names no stored post is
\* never answered with success, whatever credentials it carries, those of an
\* admin included.
C31_AbsentTargetNeverSucceeds ==
    \A id \in MissingIds, x \in AnyCredentials :
       /\ Put(id, PutReq(x[1], x[2], x[3], x[4]), AllOk).resp.status # 200
       /\ Delete(id, DeleteReq(x[1], x[2], x[3], x[4]), AllOk).resp.status # 200

(* -------------------------- lookups that fail --------------------------- *)
\* C32: hosted. A failed admin_sessions lookup makes isAdmin false and a failed
\* view_tokens lookup leaves the token path unauthorized: a PUT or DELETE whose
\* lookup failed succeeds only through the other credential or the post's
\* password, and with both lookups failing only with the post's password;
\* otherwise the post is left as it was.
C32_FailedLookupFailsClosed ==
    LET LookupsFail == [AllOk EXCEPT !.admin = FALSE, !.tok = FALSE]
        OnlyWith(o, leave) ==
            /\ o.resp.status = 200 => leave
            /\ o.resp.status # 200 => o.posts = posts
    IN Hosted =>
          \A id \in DOMAIN posts, x \in AnyCredentials :
             LET r == PutReq(x[1], x[2], x[3], x[4])
                 byPassword == IsPasswordOf(id, r.password)
             IN /\ ~isAdminHosted(r, FailingAt("admin"))
                /\ ~tokenAuthorized(id, r, FailingAt("tok"))
                /\ \A op \in {"put", "delete"} :
                      /\ OnlyWith(Handle(op, id, r, FailingAt("admin")),
                                  tokenAuthorized(id, r, AllOk) \/ byPassword)
                      /\ OnlyWith(Handle(op, id, r, FailingAt("tok")),
                                  isAdminHosted(r, AllOk) \/ byPassword)
                      /\ OnlyWith(Handle(op, id, r, LookupsFail), byPassword)

\* C32 witness: hosted, an admin cookie and a view token are live for a stored
\* post; with its lookup failing each is refused with 401, and with both
\* lookups failing a PUT carrying them and the post's password succeeds.
C32_Witness ==
    /\ Hosted
    /\ \E admin \in LiveLoginCookies, c \in IssuedOf("view"), p \in Passwords :
          /\ ValidToken(c)
          /\ IsPasswordOf(c.post, p)
          /\ Put(c.post, PutReq(admin, <<>>, <<>>, <<>>), AllOk).resp.status = 200
          /\ Put(c.post, PutReq(admin, <<>>, <<>>, <<>>),
                 FailingAt("admin")).resp.status = 401
          /\ Put(c.post, PutReq(<<>>, <<>>, <<>>, c.raw), AllOk).resp.status = 200
          /\ Put(c.post, PutReq(<<>>, <<>>, <<>>, c.raw),
                 FailingAt("tok")).resp.status = 401
          /\ Put(c.post, PutReq(admin, <<>>, p, c.raw),
                 [AllOk EXCEPT !.admin = FALSE, !.tok = FALSE]).resp.status = 200

(* -------------------------- malformed records --------------------------- *)
\* verifyPassword on any stored record: "throws" when the derivation throws,
\* otherwise the comparison of the derived text with the stored one.
\* hexToBytes: the bytes a salt text stands for. Hosted, a pair that is no hex
\* number parses to NaN and is stored as the byte 0; local, Buffer.from(hex,
\* "hex") stops at the first pair that is no hex number. A well-formed text
\* stands for itself.
\* accepts: crypto.subtle.deriveBits rejects an unknown hash name, a count
\* below 1 and a length below 8 bits; crypto.pbkdf2Sync throws on an unknown
\* digest, a count below 1 and a negative length.
verifyPasswordOutcome(password, saltHex, iterations, keylen, digest, hashHex) ==
    LET name == IF Hosted /\ digest = "sha256" THEN "SHA-256" ELSE digest
        hexToBytes(hex) ==
            CASE hex = "zz" -> IF Hosted THEN "00" ELSE ""
              [] hex = "ps1z" -> "ps1"
              [] OTHER -> hex
        accepts ==
            /\ name \in (IF Hosted THEN {"SHA-256", "SHA-1"} ELSE {"sha256", "sha1"})
            /\ iterations >= 1
            /\ IF Hosted THEN keylen >= 1 ELSE keylen >= 0
    IN IF ~accepts THEN "throws"
       ELSE IF pbkdf2Hash(password, hexToBytes(saltHex), iterations, keylen, name)
                  = hashHex
            THEN "true" ELSE "false"

\* C33: both variants. On a stored record that is malformed (salt or hash text
\* that is no hex or of the wrong length, an invalid iteration count, key
\* length or digest) verifyPassword returns false and does not throw. The
\* records taken are <<salt, iterations, keylen, digest, hash>>, each field as
\* makePasswordRecord writes it or malformed.
C33_MalformedIsFalse ==
    LET MadeIterations == IF Hosted THEN 100000 ELSE 120000
        MadeHash == IF Hosted THEN makePasswordRecord(<<"pa">>, "ps1").pw_hash_hex
                    ELSE makePasswordRecordLocal(<<"pa">>, "ps1").hashHex
        StoredRecords ==
            {"ps1", "zz", "ps1z"} \X {MadeIterations, 0, -1} \X {32, -1}
               \X {"sha256", "md5x"} \X {MadeHash, "zz", ""}
        WellFormed(rec) == rec = <<"ps1", MadeIterations, 32, "sha256", MadeHash>>
    IN \A password \in RecordPasswords, rec \in StoredRecords :
          ~WellFormed(rec) =>
             verifyPasswordOutcome(password, rec[1], rec[2], rec[3], rec[4], rec[5])
                = "false"

(* --------------------------- presented strings -------------------------- *)
\* C34: splitToken returns null for a string without separator and for one
\* whose secret part or salt part is empty; for every other string it returns
\* the parts before and after the last separator. The strings taken are those
\* of at most three characters over a letter and the separator, and every
\* credential handed out so far.
C34_MalformedIsNull ==
    LET SplitInputs ==
            UNION {[1..n -> {"a", Dot}] : n \in 0..3} \cup {c.raw : c \in issued}
    IN \A raw \in SplitInputs :
          LET parts == splitToken(raw)
              idx == LastIndexOfDot(raw)
          IN IF idx = 0 \/ idx = 1 \/ idx = Len(raw)
             THEN parts.null
             ELSE /\ ~parts.null
                  /\ TokenText(parts) = raw
                  /\ \A i \in 1..Len(parts.salt) : parts.salt[i] # Dot

(* --------------------------- error responses ---------------------------- *)
\* C35: both variants. The response to a request during which a persistence
\* call failed or an exception was thrown carries a generic error and nothing
\* else: no text of the exception and none of the backend's answer.
C35_ErrorsAreGeneric ==
    \A op \in Ops, id \in PostIds, r \in ThrowRequests :
       /\ \A c \in CallsOf(op, id, r) \ {"derive"} :
             LET resp == Handle(op, id, r, FailingAt(c)).resp
             IN resp.status >= 500 => resp.detail = ""
       /\ \A th \in Throws \cap Reaches(op, id, r) :
             LET t == Throwing(op, id, r, th)
             IN (~t.escaped /\ t.o.resp.status >= 500) => t.o.resp.detail = ""

(* ------------------------- what responses show -------------------------- *)
\* C36: both variants. The response to a request that is neither
\* admin-authenticated nor carrying the target post's password holds no
\* content of a post, and no response of any route holds a credential field of
\* a post, as a stored post has them in either variant.
C36_ContentAndCredentialsWithheld ==
    LET CredentialFields ==
            {"pw_salt_hex", "pw_iterations", "pw_digest", "pw_keylen", "pw_hash_hex",
             "password", "saltHex", "iterations", "digest", "keylen", "hashHex"}
        Shown(resp) == resp.post \cup resp.list
    IN \A op \in Ops, id \in DOMAIN posts, x \in AnyCredentials :
          LET r == PutReq(x[1], x[2], x[3], x[4])
              resp == Handle(op, id, r, AllOk).resp
          IN /\ (~LoggedIn(r) /\ ~IsPasswordOf(id, r.password)) =>
                   \A v \in Shown(resp) : "content" \notin DOMAIN v
             /\ \A v \in Shown(resp) : DOMAIN v \cap CredentialFields = {}

(* ----------------------- credentials and records ------------------------ *)
\* C37: hosted. A view token is returned and an admin cookie is set only when
\* the insert of its record returned ok, the record then being stored; when
\* the insert fails the response is a 500 with no token and no cookie.
C37_CredentialOnlyIfStored ==
    LET RowsIn(rows, raw) ==
            {t \in rows : /\ t.token_hash = tokenHashOf(splitToken(raw))
                          /\ t.token_salt = splitToken(raw).salt}
        NoCredential(resp) == resp.viewToken = <<>> /\ resp.cookieName = ""
    IN Hosted =>
          \A ok \in {AllOk, FailingAt("write")} :
             /\ \A password \in LoginPasswords :
                   LET o == Login(Body(<<>>, <<>>, password, <<>>, "", ""), ok)
                   IN /\ o.resp.cookieName = "woldecks.admin" =>
                            /\ ok.write
                            /\ RowsIn(o.admin_sessions, o.resp.cookieValue) # {}
                      /\ (~ok.write /\ password = ADMIN_PASSWORD) =>
                            o.resp.status = 500 /\ NoCredential(o.resp)
             /\ \A id \in PostIds, x \in AnyCredentials :
                   LET r == ViewReq(x[1], x[2], x[3])
                       o == View(id, r, ok)
                   IN /\ o.resp.viewToken # <<>> =>
                            /\ ok.write
                            /\ \E t \in RowsIn(o.view_tokens, o.resp.viewToken) :
                                  t.post_id = id
                      /\ (~ok.write /\ ~isAdminHosted(r, AllOk) /\ id \in DOMAIN posts
                            /\ IsPasswordOf(id, r.password)) =>
                            o.resp.status = 500 /\ NoCredential(o.resp)

\* C37 witness: hosted, a login cookie and a view token have been handed out
\* and their records are stored; the same login and the same view with the
\* insert failing are answered 500 without credential.
C37_Witness ==
    /\ Hosted
    /\ \E a \in IssuedOf("admin"), c \in IssuedOf("view"), p \in Passwords :
          /\ AdminRowsOf(a) # {}
          /\ ViewRowsOf(c) # {}
          /\ c.post \in DOMAIN posts
          /\ IsPasswordOf(c.post, p)
          /\ LET view == View(c.post, ViewReq(<<>>, <<>>, p), FailingAt("write")).resp
                 login == Login(Body(<<>>, <<>>, ADMIN_PASSWORD, <<>>, "", ""),
                                FailingAt("write")).resp
             IN /\ view.status = 500 /\ view.viewToken = <<>>
                /\ login.status = 500 /\ login.cookieName = ""

(* --------------------------- session entries ---------------------------- *)
\* C38: local. In every reachable state and every session the posts with a
\* token entry are exactly the verified posts; it holds as well of the sessions
\* a PUT or DELETE leaves when its writeData throws after the password
\* fallback unlocked the session.
C38_TokensMatchVerified ==
    LET TokensMatchVerified(store) ==
            \A s \in DOMAIN store : DOMAIN store[s].tokens = store[s].verified
    IN ~Hosted =>
          /\ TokensMatchVerified(sessions)
          /\ \A op \in {"put", "delete"}, x \in FallbackCases :
                TokensMatchVerified(
                   Throwing(op, x[1], PutReq(<<>>, x[2], x[4], x[3]), "write").o.sessions)

\* C38 witness: local, a session holds a verified post with its token entry,
\* put there by a view or by the password fallback of a PUT.
C38_Witness ==
    /\ ~Hosted
    /\ \E s \in DOMAIN sessions : sessions[s].verified # {}
    /\ last.op \in {"view", "put"} /\ last.via = "password"

(* ------------------------ the local viewToken field --------------------- *)
\* C39: local. What a PUT or DELETE does (its response, the posts, the
\* sessions and the values drawn) is the same whatever the viewToken field of
\* its body holds: any text, a token the server handed out, or nothing.
C39_ViewTokenIrrelevant ==
    ~Hosted =>
       \A id \in PostIds, x \in AnyCredentials :
          /\ Put(id, PutReq(x[1], x[2], x[3], x[4]), AllOk)
                = Put(id, PutReq(x[1], x[2], x[3], <<>>), AllOk)
          /\ Delete(id, DeleteReq(x[1], x[2], x[3], x[4]), AllOk)
                = Delete(id, DeleteReq(x[1], x[2], x[3], <<>>), AllOk)

\* C39 witness: local, a session holds a token for a stored post; a PUT with
\* that session's cookie succeeds with the token, with another text and with
\* no viewToken, and without the cookie the token alone is refused like no
\* token.
C39_Witness ==
    /\ ~Hosted
    /\ \E c \in IssuedOf("view") :
          /\ c.post \in DOMAIN posts
          /\ HeldBySession(c.cookie, c)
          /\ Put(c.post, PutReq(<<>>, c.cookie, <<>>, c.raw), AllOk).resp.status = 200
          /\ Put(c.post, PutReq(<<>>, c.cookie, <<>>, <<"x">>), AllOk).resp.status = 200
          /\ Put(c.post, PutReq(<<>>, c.cookie, <<>>, <<>>), AllOk).resp.status = 200
          /\ Put(c.post, PutReq(<<>>, <<>>, <<>>, c.raw), AllOk).resp.status = 401
          /\ Put(c.post, PutReq(<<>>, <<>>, <<>>, <<>>), AllOk).resp.status = 401

(* --------------------------- no lost update ----------------------------- *)
\* C40: local. The read-modify-write of a create, PUT or DELETE is never
\* interleaved with another's: whatever requests were in flight together, in
\* the step in which the handler of one ran after its await and succeeded the
\* stored posts become what they were just before it with its own change and
\* nothing else (the post created is added, the post of a PUT has the title
\* and content sent, the post of a DELETE is gone), so the changes of all the
\* others are kept.
C40_NoLostUpdate ==
    [][LET Reflects(q, resp, before, after) ==
               CASE q.op = "create" ->
                       /\ resp.id \notin DOMAIN before
                       /\ resp.id \in DOMAIN after
                       /\ after[resp.id].title = q.r.title
                       /\ after = With(before, resp.id, after[resp.id])
                 [] q.op = "put" ->
                       /\ q.id \in DOMAIN before
                       /\ after = [before EXCEPT ![q.id].title = q.r.title,
                                                 ![q.id].content = q.r.content]
                 [] q.op = "delete" ->
                       /\ q.id \in DOMAIN before
                       /\ after = Without(before, q.id)
       IN \A k \in Slots :
             (/\ inflight[k].pc = "body"
              /\ inflight'[k].pc = "done"
              /\ inflight'[k].resp.status \in {200, 201})
                => Reflects(inflight[k], inflight'[k].resp, posts, posts')]_vars

\* C40 witness: local, two requests were in flight together, both have
\* succeeded, the one that finished second after the data file had changed
\* since its arrival.
C40_Witness ==
    /\ ~Hosted
    /\ \A k \in Slots : /\ inflight[k].pc = "done"
                        /\ inflight[k].overlap
                        /\ inflight[k].resp.status \in {200, 201}
    /\ \E k \in Slots : /\ inflight[k].op = "put"
                        /\ inflight[k].seen # posts
                        /\ posts # <<>>
                        /\ \E j \in Slots \ {k} : inflight[j].op = "create"

====
